---- MODULE Spec2Model ----
(***************************************************************************)
(* The timer reliability and persistence core of tic-tomoto:               *)
(*   - the renderer's timer store (timerStore.ts): start / pause / stop /  *)
(*     reset, the tick handler, completeSession and its read-modify-write  *)
(*     of the document, initialize, the periodic sync check and the        *)
(*     debounced persistence of the timer state;                           *)
(*   - the task store's createTask read-modify-write;                      *)
(*   - the main process' DatabaseManager (write lock and write queue) and  *)
(*     the db:read / db:write handlers with schema validation.             *)
(* Time is the wall clock in milliseconds (Date.now()).                    *)
(***************************************************************************)
EXTENDS Integers, Sequences, FiniteSets, TLC

\* ------------------------------------------------------------------ bounds
\* user commands (start / pause / stop / reset) and restarts per run of the engine
MaxOps == 2
\* user commands (start / setCurrentTask / createTask) per run of the session pipeline
SessionOps == 3
\* user commands (start / stop / reset) per run of the long-break cadence
CadenceOps == 5
\* callers of the persistence layer in a run of the write queue
MaxWriters == 3
\* a long tick gap lands this many ms before the deadline (or on it)
GapMargin == 2400

\* short clock advances: a regular and a late tick period (ms)
Deltas == {1000, 1600}
\* where a long gap lands relative to the deadline (ms before endAt)
GapLandings == {GapMargin, 0}

\* ------------------------------------------------------------- JS values
\* `undefined` of an optional numeric field (endAt, currentTaskId, completedAt)
Undefined == -1

WORK == "work"
SHORT_BREAK == "short_break"
LONG_BREAK == "long_break"

Max(a, b) == IF a >= b THEN a ELSE b

\* Math.ceil(a / b) and Math.floor(a / b) for b > 0
Ceil(a, b) == -((-a) \div b)
Floor(a, b) == a \div b

\* `x || d` on a number: 0 and undefined are falsy
OrElse(x, d) == IF x = Undefined \/ x = 0 THEN d ELSE x

\* !!x on an optional number (state.endAt, state.currentTaskId)
Truthy(x) == x # Undefined /\ x # 0

\* --------------------------------------------------------- timerStore.ts
MsPerSec == 1000
SecPerMin == 60
CompleteDelayMs == 50
SyncToleranceSec == 2

DEFAULT_TIMES == [work |-> 25 * 60, shortBreak |-> 5 * 60, longBreak |-> 15 * 60]

getTimeForMode(mode) ==
  CASE mode = WORK -> DEFAULT_TIMES.work
    [] mode = SHORT_BREAK -> DEFAULT_TIMES.shortBreak
    [] mode = LONG_BREAK -> DEFAULT_TIMES.longBreak
    [] OTHER -> DEFAULT_TIMES.work

\* ------------------------------------------------------- shared/schema.ts
EmptyMap == [k \in {} |-> 0]

DEFAULT_SETTINGS ==
  [workDuration |-> 25, shortBreakDuration |-> 5, longBreakDuration |-> 15,
   autoStartBreaks |-> FALSE, autoStartPomodoros |-> FALSE, longBreakInterval |-> 4]

DEFAULT_DATA ==
  [tasks |-> <<>>,
   timer |-> [mode |-> WORK, timeLeft |-> 25 * 60, totalTime |-> 25 * 60,
              isRunning |-> FALSE, isPaused |-> FALSE, endAt |-> Undefined],
   settings |-> DEFAULT_SETTINGS,
   stats |-> [totalPomodoros |-> 0, totalWorkTime |-> 0, dailyPomodoros |-> EmptyMap,
              weeklyPomodoros |-> EmptyMap, monthlyPomodoros |-> EmptyMap],
   version |-> 1]

\* A task as the document holds it. createdAt stands for the run-time type of
\* the createdAt / updatedAt stamps ("number" or "Date"); status is present or not.
Task(id, est, done, isDone, doneAt, stampType, hasStatus) ==
  [id |-> id, estimatedPomodoros |-> est, completedPomodoros |-> done,
   isCompleted |-> isDone, completedAt |-> doneAt, createdAt |-> stampType,
   status |-> hasStatus]

\* `k in obj` of a stored object
Has(obj, k) == k \in DOMAIN obj

\* TaskSchema (zod)
TaskSchema(t) ==
  /\ {"estimatedPomodoros", "completedPomodoros", "createdAt", "status"} \subseteq DOMAIN t
  /\ t.estimatedPomodoros > 0
  /\ t.completedPomodoros >= 0
  /\ t.createdAt = "number"
  /\ t.status
  /\ (~Has(t, "completedAt") \/ t.completedAt = Undefined \/ t.completedAt > 0)

\* TimerSchema (zod)
TimerSchema(t) ==
  /\ {"mode", "timeLeft", "totalTime", "isRunning", "isPaused"} \subseteq DOMAIN t
  /\ t.timeLeft >= 0
  /\ t.totalTime > 0
  /\ (~Has(t, "endAt") \/ t.endAt = Undefined \/ t.endAt > 0)

\* SettingsSchema (zod)
SettingsSchema(s) ==
  /\ DOMAIN DEFAULT_SETTINGS \subseteq DOMAIN s
  /\ s.workDuration > 0
  /\ s.shortBreakDuration > 0
  /\ s.longBreakDuration > 0
  /\ s.longBreakInterval > 0

\* StatsSchema (zod)
StatsSchema(s) ==
  /\ {"totalPomodoros", "totalWorkTime", "dailyPomodoros", "weeklyPomodoros",
      "monthlyPomodoros"} \subseteq DOMAIN s
  /\ s.totalPomodoros >= 0
  /\ s.totalWorkTime >= 0
  /\ \A k \in DOMAIN s.dailyPomodoros : s.dailyPomodoros[k] >= 0
  /\ \A k \in DOMAIN s.weeklyPomodoros : s.weeklyPomodoros[k] >= 0
  /\ \A k \in DOMAIN s.monthlyPomodoros : s.monthlyPomodoros[k] >= 0

SchemaValidator(data) ==
  /\ {"tasks", "timer", "settings", "stats", "version"} \subseteq DOMAIN data
  /\ \A i \in 1..Len(data.tasks) : TaskSchema(data.tasks[i])
  /\ TimerSchema(data.timer)
  /\ SettingsSchema(data.settings)
  /\ StatsSchema(data.stats)
  /\ data.version > 0

\* { ...a, ...b }
Spread(a, b) ==
  [k \in DOMAIN a \cup DOMAIN b |-> IF k \in DOMAIN b THEN b[k] ELSE a[k]]

\* task.k || d for a number, a string and a boolean
NumOr(task, k, d) == IF Has(task, k) /\ task[k] # 0 THEN task[k] ELSE d
StrOr(task, k, d) == IF Has(task, k) /\ task[k] # "" THEN task[k] ELSE d
BoolOr(task, k) == Has(task, k) /\ task[k]

\* the id migrateFromV0 gives a task without one: Date.now().toString()
GeneratedId == 0

\* migrateFromV0: the task built from a stored one. createdAt / updatedAt are
\* the run-time types of the stamps, status is "a valid status is present"
migrateTask(task) ==
  [id |-> NumOr(task, "id", GeneratedId),
   title |-> StrOr(task, "title", "Untitled Task"),
   priority |-> StrOr(task, "priority", "medium"),
   status |-> IF Has(task, "status") THEN task.status ELSE TRUE,
   estimatedPomodoros |-> NumOr(task, "estimatedPomodoros", 1),
   completedPomodoros |-> NumOr(task, "completedPomodoros", 0),
   isCompleted |-> BoolOr(task, "isCompleted"),
   createdAt |-> StrOr(task, "createdAt", "number"),
   updatedAt |-> StrOr(task, "updatedAt", "number"),
   completedAt |-> IF Has(task, "completedAt") THEN task.completedAt ELSE Undefined]

\* migrateFromV0: a copy of DEFAULT_DATA that takes the stored tasks, timer,
\* settings and stats
migrateFromV0(oldData) ==
  [DEFAULT_DATA EXCEPT
     !.tasks = IF Has(oldData, "tasks")
               THEN [i \in 1..Len(oldData.tasks) |-> migrateTask(oldData.tasks[i])]
               ELSE @,
     !.timer = IF Has(oldData, "timer") THEN Spread(@, oldData.timer) ELSE @,
     !.settings = IF Has(oldData, "settings") THEN Spread(@, oldData.settings) ELSE @,
     !.stats = IF Has(oldData, "stats") THEN Spread(@, oldData.stats) ELSE @]

\* migrateData of a stored object: a document without a version is migrated, a
\* version other than 1 gives the default document
migrateData(data) ==
  IF ~Has(data, "version") \/ ~Truthy(data.version)
  THEN migrateFromV0(data)
  ELSE IF data.version = 1 THEN data ELSE DEFAULT_DATA

\* a validateAndMigrateData that trusts the migration's result
validateAndMigrateDataUnchecked(data) ==
  IF SchemaValidator(data) THEN data ELSE migrateData(data)

validateAndMigrateData(data) ==
  IF SchemaValidator(data) THEN data
  ELSE IF SchemaValidator(migrateData(data)) THEN migrateData(data)
  ELSE DEFAULT_DATA

\* ------------------------------------------------------------ period keys
\* format(now, 'yyyy-MM-dd'), ISO week and format(now, 'yyyy-MM') of an instant
\* of January 1970 (UTC), as day number, ISO week number and month number.
DayNumber(n) == n \div (24 * 60 * 60 * 1000)
dailyKey(n) == DayNumber(n)
weekKey(n) == (DayNumber(n) + 3) \div 7 + 1
monthKey(n) == IF DayNumber(n) < 31 THEN 1 ELSE 2

\* (map[key] || 0)
Get(map, k) == IF k \in DOMAIN map THEN map[k] ELSE 0
\* map[key] = v
Put(map, k, v) == [x \in DOMAIN map \cup {k} |-> IF x = k THEN v ELSE map[x]]

\* ------------------------------------------------- timer store: pure steps
\* the store's initial state
InitialTimer ==
  [mode |-> WORK, timeLeft |-> DEFAULT_TIMES.work, totalTime |-> DEFAULT_TIMES.work,
   isRunning |-> FALSE, isPaused |-> FALSE, currentSession |-> 0, totalSessions |-> 0,
   currentTaskId |-> Undefined, endAt |-> Undefined]

\* the timer record written to the document
PersistedTimer(t) ==
  [mode |-> t.mode, timeLeft |-> t.timeLeft, totalTime |-> t.totalTime,
   isRunning |-> t.isRunning, isPaused |-> t.isPaused, endAt |-> t.endAt]

\* start(): set((draft) => ...)
startState(t, n) ==
  [t EXCEPT !.isRunning = TRUE, !.isPaused = FALSE, !.endAt = n + t.timeLeft * MsPerSec]

\* a pause() that forgets to clear the deadline
pauseStateKeepsEndAt(t) == [t EXCEPT !.isRunning = FALSE, !.isPaused = TRUE]

\* a pause() that leaves the running flag set
pauseStateKeepsRunning(t) == [t EXCEPT !.isPaused = TRUE, !.endAt = Undefined]

\* pause(): set((draft) => ...)
pauseState(t) ==
  [t EXCEPT !.isRunning = FALSE, !.isPaused = TRUE, !.endAt = Undefined]

\* a stop() that counts a session
stopStateCountsSession(t) ==
  [t EXCEPT !.isRunning = FALSE, !.isPaused = FALSE, !.timeLeft = t.totalTime,
            !.endAt = Undefined, !.totalSessions = @ + 1]

\* stop(): set((draft) => ...)
stopState(t) ==
  [t EXCEPT !.isRunning = FALSE, !.isPaused = FALSE, !.timeLeft = t.totalTime,
            !.endAt = Undefined]

\* reset(): set((draft) => ...)
resetState(t) ==
  [t EXCEPT !.isRunning = FALSE, !.isPaused = FALSE,
            !.timeLeft = getTimeForMode(t.mode), !.totalTime = getTimeForMode(t.mode),
            !.endAt = Undefined]

\* a tick guard that lets ticks through once the countdown is at zero
tickGuardIgnoresZero(t) == t.isRunning

\* a tick guard that does not look at isRunning
tickGuardIgnoresRunning(t) == t.timeLeft > 0

\* onTick: if (state.isRunning && state.timeLeft > 0)
tickGuard(t) == t.isRunning /\ t.timeLeft > 0

\* a tick that only counts down
tickTimeLeftNaive(t, n) == t.timeLeft - 1

\* onTick: newTimeLeft (the deadline wins over the decrement)
tickTimeLeft(t, n) ==
  IF Truthy(t.endAt) THEN Ceil(Max(0, t.endAt - n), MsPerSec) ELSE t.timeLeft - 1

\* completeSession: the synchronous set((draft) => ...)
completeState(t) ==
  [t EXCEPT !.currentSession = IF t.mode = WORK THEN @ + 1 ELSE @,
            !.totalSessions = IF t.mode = WORK THEN @ + 1 ELSE @,
            !.isRunning = FALSE, !.isPaused = FALSE, !.endAt = Undefined]

\* ---------------------------------------- completeSession: the continuation
\* data.tasks.findIndex((t) => t.id === id): 0 when there is none
findIndex(tasks, id) ==
  IF \E i \in 1..Len(tasks) : tasks[i].id = id
  THEN CHOOSE i \in 1..Len(tasks) :
         tasks[i].id = id /\ \A j \in 1..(i - 1) : tasks[j].id # id
  ELSE 0

\* statistics credited whatever the completed mode was
creditStatsAnyMode(stats, state, n) ==
  [stats EXCEPT !.totalPomodoros = @ + 1, !.totalWorkTime = @ + state.totalTime]

\* the statistics update: only a WORK session counts
creditStats(stats, state, n) ==
  IF state.mode = WORK
  THEN [stats EXCEPT
          !.totalPomodoros = @ + 1,
          !.totalWorkTime = @ + state.totalTime,
          !.dailyPomodoros = Put(@, dailyKey(n), Get(@, dailyKey(n)) + 1),
          !.weeklyPomodoros = Put(@, weekKey(n), Get(@, weekKey(n)) + 1),
          !.monthlyPomodoros = Put(@, monthKey(n), Get(@, monthKey(n)) + 1)]
  ELSE stats

\* a crediting that completes the task only once the estimate is exceeded
creditedTaskStrict(task, state, n) ==
  LET done == task.completedPomodoros + (IF state.mode = WORK THEN 1 ELSE 0)
  IN IF state.mode = WORK /\ done > task.estimatedPomodoros
     THEN [task EXCEPT !.completedPomodoros = done, !.isCompleted = TRUE,
                       !.completedAt = n]
     ELSE [task EXCEPT !.completedPomodoros = done]

\* the credited task: { ...task, completedPomodoros, updatedAt }, completed when due
creditedTask(task, state, n) ==
  LET done == task.completedPomodoros + (IF state.mode = WORK THEN 1 ELSE 0)
  IN IF state.mode = WORK /\ done >= task.estimatedPomodoros
     THEN [task EXCEPT !.completedPomodoros = done, !.isCompleted = TRUE,
                       !.completedAt = n]
     ELSE [task EXCEPT !.completedPomodoros = done]

\* the task update: the current task, when it is set and still exists
creditTask(tasks, state, n) ==
  IF Truthy(state.currentTaskId) /\ findIndex(tasks, state.currentTaskId) # 0
  THEN [tasks EXCEPT ![findIndex(tasks, state.currentTaskId)] = creditedTask(@, state, n)]
  ELSE tasks

\* a long break chosen one session late
nextModeOffByOne(state, next, settings) ==
  IF state.mode = WORK
  THEN IF (next.currentSession + 1) % OrElse(settings.longBreakInterval, 4) = 0
       THEN LONG_BREAK ELSE SHORT_BREAK
  ELSE WORK

\* the next mode: state is the snapshot taken by completeSession, next is get()
nextMode(state, next, settings) ==
  IF state.mode = WORK
  THEN IF next.currentSession % OrElse(settings.longBreakInterval, 4) = 0
       THEN LONG_BREAK ELSE SHORT_BREAK
  ELSE WORK

\* a next phase that takes the built-in time of its mode
nextTotalBuiltIn(mode, settings) == getTimeForMode(mode)

\* minutesToSeconds of the chosen mode's duration
nextTotal(mode, settings) ==
  CASE mode = LONG_BREAK -> settings.longBreakDuration * SecPerMin
    [] mode = SHORT_BREAK -> settings.shortBreakDuration * SecPerMin
    [] OTHER -> settings.workDuration * SecPerMin

\* an auto start that knows the breaks only
shouldAutoStartBreaksOnly(state, settings) ==
  state.mode = WORK /\ settings.autoStartBreaks

\* completeSession: shouldAutoStart
shouldAutoStart(state, settings) ==
  \/ (state.mode = WORK /\ settings.autoStartBreaks)
  \/ (state.mode # WORK /\ settings.autoStartPomodoros)

\* the store after the continuation: next phase, then the auto start
advanceState(state, next, settings, n) ==
  LET m == nextMode(state, next, settings)
      adv == [next EXCEPT !.mode = m, !.totalTime = nextTotal(m, settings),
                          !.timeLeft = nextTotal(m, settings), !.isRunning = FALSE,
                          !.isPaused = FALSE, !.endAt = Undefined]
  IN IF shouldAutoStart(state, settings)
     THEN [adv EXCEPT !.isRunning = TRUE, !.isPaused = FALSE,
                      !.endAt = n + adv.timeLeft * MsPerSec]
     ELSE adv

\* a continuation that credits what the store holds when the read resolves
completedDataLate(data, state, next, n) ==
  [data EXCEPT
     !.stats = creditStats(@, next, n),
     !.tasks = creditTask(@, next, n),
     !.timer = PersistedTimer(advanceState(state, next, data.settings, n))]

\* a continuation that writes the timer only and leaves the credits to a
\* later write
completedDataTimerOnly(data, state, next, n) ==
  [data EXCEPT !.timer = PersistedTimer(advanceState(state, next, data.settings, n))]

\* the document handed to storage.write by the continuation
completedData(data, state, next, n) ==
  [data EXCEPT
     !.stats = creditStats(@, state, n),
     !.tasks = creditTask(@, state, n),
     !.timer = PersistedTimer(advanceState(state, next, data.settings, n))]

\* --------------------------------------------------- initialize, sync check
\* a recovery that rounds the remaining time down
recoveredTimeLeftFloor(endAt, n) == Floor(Max(0, endAt - n), MsPerSec)

\* a recovery that always finds time left
recoveredTimeLeftNeverZero(endAt, n) == Max(1, Ceil(Max(0, endAt - n), MsPerSec))

\* initialize: newTimeLeft of a persisted running state
recoveredTimeLeft(endAt, n) == Ceil(Max(0, endAt - n), MsPerSec)

\* initialize: the store after the read resolved
initState(t, data, n) ==
  LET t1 == [t EXCEPT !.mode = data.timer.mode, !.totalTime = data.timer.totalTime,
                      !.isRunning = data.timer.isRunning,
                      !.isPaused = data.timer.isPaused, !.endAt = data.timer.endAt]
  IN IF t1.isRunning /\ Truthy(t1.endAt)
     THEN IF /\ recoveredTimeLeft(t1.endAt, n) > 0
             /\ recoveredTimeLeft(t1.endAt, n) <= t1.totalTime
          THEN [t1 EXCEPT !.timeLeft = recoveredTimeLeft(t1.endAt, n)]
          ELSE [t1 EXCEPT !.isRunning = FALSE, !.isPaused = FALSE,
                          !.timeLeft = t1.totalTime, !.endAt = Undefined]
     ELSE t1

\* initialize: does the read's continuation call startSyncCheck?
initResumes(t, data, n) ==
  /\ data.timer.isRunning
  /\ Truthy(data.timer.endAt)
  /\ recoveredTimeLeft(data.timer.endAt, n) > 0
  /\ recoveredTimeLeft(data.timer.endAt, n) <= data.timer.totalTime

Abs(x) == IF x < 0 THEN -x ELSE x

\* syncTimerState: the store after the read resolved (NaN compares false)
syncState(t, data, n) ==
  IF data.timer.isRunning /\ t.isRunning /\ data.timer.endAt # Undefined
  THEN LET expectedTimeLeft == Max(0, Floor(data.timer.endAt - n, MsPerSec))
       IN IF Abs(expectedTimeLeft - t.timeLeft) > SyncToleranceSec
          THEN [t EXCEPT !.timeLeft = expectedTimeLeft, !.endAt = data.timer.endAt]
          ELSE t
  ELSE t

\* ------------------------------------------------- storage under failure
\* storage.read(): db:read answers DEFAULT_DATA when safeRead throws
readResult(up, current) == IF up THEN current ELSE DEFAULT_DATA

\* storage.write(): db:write answers false when safeWrite throws and db.data
\* stays as it was; otherwise db.data is the validated payload
writeResult(up, current, payload) ==
  IF up THEN validateAndMigrateData(payload) ELSE current

\* a continuation that moves the store on only once the write went through
continuedStateAfterWrite(stored, state, next, settings, n) ==
  IF stored THEN advanceState(state, next, settings, n) ELSE next

\* completeSession's continuation sets the store before it calls
\* storage.write, whatever the outcome of the write
continuedState(stored, state, next, settings, n) ==
  advanceState(state, next, settings, n)

\* ------------------------------------------------------------ localStorage
\* localStorage.getItem(key) of a key that was never set
NoItem == [kind |-> "null"]
\* an item that JSON.parse rejects
InvalidJson == [kind |-> "invalid"]
\* the JSON text of null, a number or a string
ScalarJson == [kind |-> "scalar"]
\* the item JSON.stringify(value) left
JsonItem(value) == [kind |-> "json", value |-> value]

\* the outcome of an adapter's read(): a resolved document or a rejection
Resolved(data) == [rejected |-> FALSE, data |-> data]
Rejected == [rejected |-> TRUE]

\* a read() without its try / catch
localReadUncaught(item) ==
  IF item.kind = "null" THEN Resolved(DEFAULT_DATA)
  ELSE IF item.kind = "invalid" THEN Rejected
  ELSE IF item.kind = "scalar" THEN Resolved(DEFAULT_DATA)
  ELSE Resolved(migrateData(item.value))

\* LocalStorageAdapter.read()
localRead(item) ==
  IF item.kind = "null" THEN Resolved(DEFAULT_DATA)
  ELSE IF item.kind = "invalid" THEN Resolved(DEFAULT_DATA)
  ELSE IF item.kind = "scalar" THEN Resolved(DEFAULT_DATA)
  ELSE Resolved(migrateData(item.value))

\* ElectronDbAdapter.read(): what db:read answered
electronRead(up, current) == Resolved(readResult(up, current))

\* ------------------------------------------------------------------ state
VARIABLES
  timer,           \* the timer store's state (renderer)
  now,             \* Date.now(), ms
  doc,             \* db.data: the document the main process holds
  debounced,       \* debouncedPersistTimer: <<latest argument>> while its timer is pending
  persistIO,       \* debouncedPersistTimer bodies between their read and their write
  pipeline,        \* completeSession continuations waiting for storage.read()
  completeTimers,  \* due times of the pending setTimeout(completeSession, 50)
  initIO,          \* initialize: the read it waits for
  syncIO,          \* syncTimerState: the read it waits for
  syncInterval,    \* the 5 s sync check interval is set
  workerOn,        \* the main process' TimerWorker interval is set
  tickHandler,     \* an onTick listener is registered
  initialized,     \* window.isTimerInitialized
  taskIO,          \* createTask bodies between their read and their write
  opsLeft,         \* user commands (and restarts) the run may still issue
  zeroReached,     \* countdowns that a tick brought from above zero to zero
  completeCalls,   \* completeSession invocations
  workCompleted,   \* completeSession invocations in WORK mode
  last,            \* the last step taken, with what it read
  writeQueue,      \* DatabaseManager.writeQueue: the closures not yet started
  writeLock,       \* DatabaseManager.writeLock
  running,         \* the closures started and not yet finished
  disk,            \* the document in the JSON file
  callers,         \* the callers of db:read / db:write, each with its copy
  writeLog,        \* the operations run so far, with what each was handed
  issued,          \* the callers in the order of their safeWrite calls
  tickInFlight,    \* a 'timer:tick' sent before the worker was stopped, not yet delivered
  storageUp,       \* the main process can read and write the document
  cancelled,       \* pause / stop / cleanup was called and no start since
  tasks,           \* the task store's tasks (renderer)
  localStorage,    \* the item of the localStorage key
  tasksInitialized, \* window.isTaskStoreInitialized
  isInitialized,   \* Timer.tsx: isInitialized.current of the mounted Timer
  effect,          \* Timer.tsx: the isRunning its effect was set up with, while mounted
  defaultData      \* the renderer's DEFAULT_DATA object, as it is now

timerVars == <<timer, debounced, persistIO, pipeline, completeTimers, initIO, syncIO,
               syncInterval, workerOn, tickHandler, initialized, taskIO>>
ghostVars == <<opsLeft, zeroReached, completeCalls, workCompleted>>
queueVars == <<writeQueue, writeLock, running, disk, callers, writeLog, issued>>
envVars == <<tickInFlight, storageUp, cancelled>>
componentVars == <<isInitialized, effect>>
storeVars == <<tasks, localStorage, tasksInitialized, componentVars, defaultData>>
vars == <<timerVars, ghostVars, now, doc, last, queueVars, envVars, storeVars>>

\* a fresh renderer and tick worker
FreshProcess ==
  /\ timer = InitialTimer
  /\ debounced = <<>>
  /\ persistIO = <<>>
  /\ pipeline = <<>>
  /\ completeTimers = <<>>
  /\ initIO = <<>>
  /\ syncIO = <<>>
  /\ syncInterval = FALSE
  /\ workerOn = FALSE
  /\ tickHandler = FALSE
  /\ initialized = FALSE
  /\ taskIO = <<>>
  /\ zeroReached = 0
  /\ completeCalls = 0
  /\ workCompleted = 0
  /\ last = [op |-> "other"]
  /\ tickInFlight = FALSE
  /\ cancelled = FALSE
  /\ tasks = <<>>
  /\ tasksInitialized = FALSE
  /\ isInitialized = FALSE
  /\ effect = "none"
  /\ defaultData = DEFAULT_DATA

\* a main process with no write requested yet
QueueIdle ==
  /\ writeQueue = <<>>
  /\ writeLock = FALSE
  /\ running = {}
  /\ disk = doc
  /\ callers = [c \in 1..MaxWriters |-> [pc |-> "idle", data |-> doc, over |-> {}]]
  /\ writeLog = <<>>
  /\ issued = <<>>

\* the documents a run of the engine can start from
InitialDocs ==
  { [DEFAULT_DATA EXCEPT !.settings.autoStartBreaks = auto] : auto \in BOOLEAN }

Init ==
  /\ FreshProcess
  /\ now = MsPerSec
  /\ doc \in InitialDocs
  /\ opsLeft = MaxOps
  /\ storageUp = TRUE
  /\ QueueIdle
  /\ localStorage = NoItem

\* The renderer's writes find the write queue idle (a storage round trip is
\* shorter than the time between two of them): db.data and the file change in
\* the step that issues the write.

\* no read-modify-write is between its read and its write
NoIO == persistIO = <<>> /\ pipeline = <<>> /\ initIO = <<>> /\ syncIO = <<>> /\ taskIO = <<>>

\* ------------------------------------------------------------ user commands
Start ==
  /\ initialized
  /\ opsLeft > 0
  /\ opsLeft' = opsLeft - 1
  /\ timer' = startState(timer, now)
  /\ debounced' = <<PersistedTimer(timer')>>
  /\ syncInterval' = TRUE
  /\ workerOn' = TRUE
  /\ tickInFlight' = FALSE
  /\ cancelled' = FALSE
  /\ last' = [op |-> "start"]
  /\ UNCHANGED queueVars
  /\ UNCHANGED storageUp
  /\ UNCHANGED <<persistIO, pipeline, completeTimers, initIO, syncIO, tickHandler,
                 initialized, taskIO, zeroReached,
                 completeCalls, workCompleted, now, doc>>
  /\ UNCHANGED storeVars

Pause ==
  /\ initialized
  /\ opsLeft > 0
  /\ opsLeft' = opsLeft - 1
  /\ timer' = pauseState(timer)
  /\ debounced' = <<PersistedTimer(timer')>>
  /\ syncInterval' = FALSE
  /\ workerOn' = FALSE
  /\ tickInFlight' = (tickInFlight \/ workerOn)
  /\ cancelled' = TRUE
  /\ last' = [op |-> "pause"]
  /\ UNCHANGED queueVars
  /\ UNCHANGED storageUp
  /\ UNCHANGED <<persistIO, pipeline, completeTimers, initIO, syncIO, tickHandler,
                 initialized, taskIO, zeroReached,
                 completeCalls, workCompleted, now, doc>>
  /\ UNCHANGED storeVars

Stop ==
  /\ initialized
  /\ opsLeft > 0
  /\ opsLeft' = opsLeft - 1
  /\ timer' = stopState(timer)
  /\ debounced' = <<PersistedTimer(timer')>>
  /\ syncInterval' = FALSE
  /\ workerOn' = FALSE
  /\ tickInFlight' = (tickInFlight \/ workerOn)
  /\ cancelled' = TRUE
  /\ last' = [op |-> "stop", before |-> timer,
              first |-> IF last.op = "stop" THEN last.first ELSE timer,
              twice |-> last.op = "stop"]
  /\ UNCHANGED queueVars
  /\ UNCHANGED storageUp
  /\ UNCHANGED <<persistIO, pipeline, completeTimers, initIO, syncIO, tickHandler,
                 initialized, taskIO, zeroReached,
                 completeCalls, workCompleted, now, doc>>
  /\ UNCHANGED storeVars

Reset ==
  /\ initialized
  /\ opsLeft > 0
  /\ opsLeft' = opsLeft - 1
  /\ timer' = resetState(timer)
  /\ debounced' = <<PersistedTimer(timer')>>
  /\ last' = [op |-> "reset"]
  /\ UNCHANGED queueVars
  /\ UNCHANGED envVars
  /\ UNCHANGED <<persistIO, pipeline, completeTimers, initIO, syncIO, syncInterval,
                 workerOn, tickHandler, initialized, taskIO, zeroReached, completeCalls, workCompleted, now, doc>>
  /\ UNCHANGED storeVars

\* task ids the user can select; the second one is never in the document
TaskIds == {1, 2}

SetCurrentTask ==
  /\ initialized
  /\ opsLeft > 0
  /\ opsLeft' = opsLeft - 1
  /\ \E id \in TaskIds : timer' = [timer EXCEPT !.currentTaskId = id]
  /\ timer' # timer
  /\ last' = [op |-> "other"]
  /\ UNCHANGED queueVars
  /\ UNCHANGED envVars
  /\ UNCHANGED <<debounced, persistIO, pipeline, completeTimers, initIO, syncIO,
                 syncInterval, workerOn, tickHandler, initialized, taskIO, zeroReached, completeCalls,
                 workCompleted, now, doc>>
  /\ UNCHANGED storeVars

\* ---------------------------------------------------------------- the clock
\* Scheduling: a storage round trip, the 500 ms debounce and the 50 ms completion
\* delay are shorter than any modelled clock advance, so the clock stands while
\* one of them is pending; the 50 ms delay may pass while a debounce is pending.
ClockFree == NoIO /\ debounced = <<>> /\ completeTimers = <<>>

\* a tick period passes near the deadline
Advance ==
  /\ ClockFree
  /\ timer.isRunning
  /\ timer.endAt # Undefined
  /\ timer.endAt - now <= GapMargin
  /\ now < timer.endAt
  /\ \E d \in Deltas : now' = now + d
  /\ last' = [op |-> "other"]
  /\ UNCHANGED queueVars
  /\ UNCHANGED envVars
  /\ UNCHANGED <<timerVars, ghostVars, doc>>
  /\ UNCHANGED storeVars

\* a long stretch of the countdown passes and leaves r ms (r in landings) to the
\* deadline; ticks are delivered in it or not: each tick recomputes timeLeft
\* from the deadline, so only the last one matters
LongGapTo(landings) ==
  /\ ClockFree
  /\ timer.isRunning
  /\ timer.endAt # Undefined
  /\ timer.endAt - now > GapMargin
  /\ \E r \in landings : now' = timer.endAt - r
  /\ last' = [op |-> "other"]
  /\ UNCHANGED queueVars
  /\ UNCHANGED envVars
  /\ UNCHANGED <<timerVars, ghostVars, doc>>
  /\ UNCHANGED storeVars

LongGap == LongGapTo(GapLandings)

\* the countdown passes up to its deadline
Elapse == LongGapTo({0})

\* the 50 ms of a pending setTimeout(completeSession) pass
CompleteDelay ==
  /\ completeTimers # <<>>
  /\ now < Head(completeTimers)
  /\ now' = Head(completeTimers)
  /\ last' = [op |-> "other"]
  /\ UNCHANGED queueVars
  /\ UNCHANGED envVars
  /\ UNCHANGED <<timerVars, ghostVars, doc>>
  /\ UNCHANGED storeVars

\* ------------------------------------------------------------ tick handler
\* window.tomatoAPI.timer.onTick(() => ...): one tick of the TimerWorker
Tick ==
  /\ tickHandler
  /\ workerOn \/ tickInFlight
  /\ tickInFlight' = FALSE
  /\ timer' = IF tickGuard(timer)
              THEN [timer EXCEPT !.timeLeft = tickTimeLeft(timer, now)]
              ELSE timer
  /\ completeTimers' = IF tickGuard(timer) /\ tickTimeLeft(timer, now) <= 0
                       THEN Append(completeTimers, now + CompleteDelayMs)
                       ELSE completeTimers
  /\ zeroReached' = IF timer.isRunning /\ timer.timeLeft > 0 /\ timer'.timeLeft <= 0
                    THEN zeroReached + 1 ELSE zeroReached
  /\ last' = [op |-> "tick", handled |-> tickGuard(timer), before |-> timer.timeLeft]
  /\ UNCHANGED queueVars
  /\ UNCHANGED <<storageUp, cancelled>>
  /\ UNCHANGED <<debounced, persistIO, pipeline, initIO, syncIO, syncInterval, workerOn,
                 tickHandler, initialized, taskIO, opsLeft,
                 completeCalls, workCompleted, now, doc>>
  /\ UNCHANGED storeVars

\* -------------------------------------------------------- completeSession
\* the timeout fires: completeSession up to its storage.read()
CompleteSession ==
  /\ completeTimers # <<>>
  /\ now >= Head(completeTimers)
  /\ completeTimers' = Tail(completeTimers)
  /\ timer' = completeState(timer)
  /\ workerOn' = FALSE
  /\ completeCalls' = completeCalls + 1
  /\ workCompleted' = IF timer.mode = WORK THEN workCompleted + 1 ELSE workCompleted
  /\ tickInFlight' = (tickInFlight \/ workerOn)
  /\ pipeline' = Append(pipeline, [state |-> timer, data |-> readResult(storageUp, doc),
                                   k |-> workCompleted', failed |-> ~storageUp])
  /\ last' = [op |-> "other"]
  /\ UNCHANGED queueVars
  /\ UNCHANGED <<storageUp, cancelled>>
  /\ UNCHANGED <<debounced, persistIO, initIO, syncIO, syncInterval, tickHandler,
                 initialized, taskIO, opsLeft, zeroReached, now, doc>>
  /\ UNCHANGED storeVars

\* the read resolved: crediting, next phase, auto start and the write
CompleteContinue ==
  /\ pipeline # <<>>
  /\ LET p == Head(pipeline)
     IN /\ timer' = continuedState(storageUp, p.state, timer, p.data.settings, now)
        /\ workerOn' = (workerOn \/ shouldAutoStart(p.state, p.data.settings))
        /\ tickInFlight' = (tickInFlight /\ ~shouldAutoStart(p.state, p.data.settings))
        /\ cancelled' = (cancelled /\ ~shouldAutoStart(p.state, p.data.settings))
        /\ doc' = writeResult(storageUp, doc, completedData(p.data, p.state, timer, now))
        /\ last' = [op |-> "complete", state |-> p.state, data |-> p.data, k |-> p.k,
                    at |-> now, next |-> timer, stored |-> storageUp]
        /\ disk' = doc'
        /\ UNCHANGED <<writeQueue, writeLock, running, callers, writeLog, issued>>
        /\ UNCHANGED storageUp
  /\ pipeline' = Tail(pipeline)
  /\ UNCHANGED <<debounced, persistIO, completeTimers, initIO, syncIO, syncInterval,
                 tickHandler, initialized, taskIO, ghostVars, now>>
  /\ UNCHANGED storeVars

\* ---------------------------------------------------- debouncedPersistTimer
\* the 500 ms passed: the body runs up to its storage.read(). Scheduling: a
\* command that arms the debounce leaves the countdown at least a second to
\* run, so a pending 50 ms completion delay or storage round trip of the
\* store ends before the debounce does.
PersistRead ==
  /\ debounced # <<>>
  /\ completeTimers = <<>>
  /\ pipeline = <<>>
  /\ initIO = <<>>
  /\ syncIO = <<>>
  /\ persistIO' = Append(persistIO, [timerState |-> Head(debounced),
                                     data |-> readResult(storageUp, doc),
                                     failed |-> ~storageUp])
  /\ debounced' = <<>>
  /\ last' = [op |-> "other"]
  /\ UNCHANGED queueVars
  /\ UNCHANGED envVars
  /\ UNCHANGED <<timer, pipeline, completeTimers, initIO, syncIO, syncInterval, workerOn,
                 tickHandler, initialized, taskIO, ghostVars, now, doc>>
  /\ UNCHANGED storeVars

\* { ...data, timer: { ... } }
persistedData(data, timerState) == [data EXCEPT !.timer = timerState]

\* the read resolved: the write
PersistWrite ==
  /\ persistIO # <<>>
  /\ doc' = writeResult(storageUp, doc,
                         persistedData(Head(persistIO).data, Head(persistIO).timerState))
  /\ persistIO' = Tail(persistIO)
  /\ last' = [op |-> "persist", stored |-> storageUp]
  /\ disk' = doc'
  /\ UNCHANGED <<writeQueue, writeLock, running, callers, writeLog, issued>>
  /\ UNCHANGED envVars
  /\ UNCHANGED <<timer, debounced, pipeline, completeTimers, initIO, syncIO, syncInterval,
                 workerOn, tickHandler, initialized, taskIO, ghostVars, now>>
  /\ UNCHANGED storeVars

\* --------------------------------------------------------------- initialize
\* Timer.tsx calls initialize() once per window: the read is issued and the
\* tick listener registered
Initialize ==
  /\ ~initialized
  /\ initialized' = TRUE
  /\ tickHandler' = TRUE
  /\ initIO' = <<readResult(storageUp, doc)>>
  /\ last' = [op |-> "other"]
  /\ UNCHANGED queueVars
  /\ UNCHANGED envVars
  /\ UNCHANGED <<timer, debounced, persistIO, pipeline, completeTimers, syncIO,
                 syncInterval, workerOn, taskIO, ghostVars, now, doc>>
  /\ UNCHANGED storeVars

\* the read resolved
InitializeContinue ==
  /\ initIO # <<>>
  /\ timer' = initState(timer, Head(initIO), now)
  /\ syncInterval' = (syncInterval \/ initResumes(timer, Head(initIO), now))
  /\ initIO' = <<>>
  /\ last' = [op |-> "initialized", data |-> Head(initIO), at |-> now]
  /\ UNCHANGED queueVars
  /\ UNCHANGED envVars
  /\ UNCHANGED <<debounced, persistIO, pipeline, completeTimers, syncIO, workerOn,
                 tickHandler, initialized, taskIO, ghostVars, now, doc>>
  /\ UNCHANGED storeVars

\* --------------------------------------------------------------- sync check
\* the 5 s interval fires: syncTimerState up to its storage.read(); a check
\* of a timer that is not running changes nothing
SyncRead ==
  /\ syncInterval
  /\ timer.isRunning
  /\ syncIO = <<>>
  /\ persistIO = <<>>
  /\ syncIO' = <<readResult(storageUp, doc)>>
  /\ last' = [op |-> "other"]
  /\ UNCHANGED queueVars
  /\ UNCHANGED envVars
  /\ UNCHANGED <<timer, debounced, persistIO, pipeline, completeTimers, initIO,
                 syncInterval, workerOn, tickHandler, initialized, taskIO, ghostVars,
                 now, doc>>
  /\ UNCHANGED storeVars

\* the read resolved
SyncContinue ==
  /\ syncIO # <<>>
  /\ timer' = syncState(timer, Head(syncIO), now)
  /\ syncIO' = <<>>
  /\ last' = [op |-> "sync", before |-> timer.timeLeft]
  /\ UNCHANGED queueVars
  /\ UNCHANGED envVars
  /\ UNCHANGED <<debounced, persistIO, pipeline, completeTimers, initIO, syncInterval,
                 workerOn, tickHandler, initialized, taskIO, ghostVars, now, doc>>
  /\ UNCHANGED storeVars

\* ------------------------------------------------------ task store: createTask
\* the task createTask builds: createdAt / updatedAt are Date objects and there
\* is no status field
NewTaskId == 3
newTask(id) == Task(id, 1, 0, FALSE, Undefined, "Date", FALSE)

\* createTask up to its storage.read()
CreateTaskRead ==
  /\ initialized
  /\ opsLeft > 0
  /\ opsLeft' = opsLeft - 1
  /\ taskIO' = Append(taskIO, readResult(storageUp, doc))
  /\ last' = [op |-> "other"]
  /\ UNCHANGED queueVars
  /\ UNCHANGED envVars
  /\ UNCHANGED <<timer, debounced, persistIO, pipeline, completeTimers, initIO, syncIO,
                 syncInterval, workerOn, tickHandler, initialized, zeroReached, completeCalls, workCompleted, now, doc>>
  /\ UNCHANGED storeVars

\* data.tasks.push(newTask)
createdData(data) == [data EXCEPT !.tasks = Append(@, newTask(NewTaskId))]

\* the read resolved: the write
CreateTaskWrite ==
  /\ taskIO # <<>>
  /\ doc' = writeResult(storageUp, doc, createdData(Head(taskIO)))
  /\ taskIO' = Tail(taskIO)
  /\ last' = [op |-> "other"]
  /\ disk' = doc'
  /\ UNCHANGED <<writeQueue, writeLock, running, callers, writeLog, issued>>
  /\ UNCHANGED envVars
  /\ UNCHANGED <<timer, debounced, persistIO, pipeline, completeTimers, initIO, syncIO,
                 syncInterval, workerOn, tickHandler, initialized, ghostVars, now>>
  /\ tasks' = Append(tasks, newTask(NewTaskId))
  /\ UNCHANGED <<localStorage, tasksInitialized, componentVars, defaultData>>

\* ------------------------------------------------------------------ restart
\* the application is closed and started again: the renderer's store, timers
\* and pending continuations and the main process' tick worker are gone, the
\* document stays
Restart ==
  /\ initialized
  /\ opsLeft > 0
  /\ opsLeft' = opsLeft - 1
  /\ timer' = InitialTimer
  /\ debounced' = <<>>
  /\ persistIO' = <<>>
  /\ pipeline' = <<>>
  /\ completeTimers' = <<>>
  /\ initIO' = <<>>
  /\ syncIO' = <<>>
  /\ syncInterval' = FALSE
  /\ workerOn' = FALSE
  /\ tickHandler' = FALSE
  /\ initialized' = FALSE
  /\ taskIO' = <<>>
  /\ zeroReached' = 0
  /\ completeCalls' = 0
  /\ workCompleted' = 0
  /\ tickInFlight' = FALSE
  /\ cancelled' = FALSE
  /\ last' = [op |-> "other"]
  /\ UNCHANGED queueVars
  /\ tasks' = <<>>
  /\ tasksInitialized' = FALSE
  /\ isInitialized' = FALSE
  /\ effect' = "none"
  /\ defaultData' = DEFAULT_DATA
  /\ UNCHANGED localStorage
  /\ UNCHANGED <<storageUp, now, doc>>

\* ------------------------------------------------- the engine's specification
Next ==
  \/ Start
  \/ Pause
  \/ Stop
  \/ Reset
  \/ Advance
  \/ LongGap
  \/ CompleteDelay
  \/ Tick
  \/ CompleteSession
  \/ CompleteContinue
  \/ PersistRead
  \/ PersistWrite
  \/ Initialize
  \/ InitializeContinue
  \/ SyncRead
  \/ SyncContinue
  \/ Restart

Spec == Init /\ [][Next]_vars

\* ------------------------------------- the session pipeline's specification
\* two valid stored tasks: one a pomodoro short of its estimate, one untouched
StoredTasks ==
  <<Task(1, 3, 2, FALSE, Undefined, "number", TRUE),
    Task(2, 2, 0, FALSE, Undefined, "number", TRUE)>>

\* the store that loaded timer state t, after its countdown ran out at time n
PlayedState(t, n) ==
  [t EXCEPT !.isRunning = TRUE, !.timeLeft = 0, !.endAt = n - CompleteDelayMs]

\* the document after an earlier run completed that session at time n
Played(data, t, n) ==
  completedData(data, PlayedState(t, n), completeState(PlayedState(t, n)), n)

\* the instants at which an earlier run completed a work session and its break
FirstWorkEnd == MsPerSec + DEFAULT_TIMES.work * MsPerSec + CompleteDelayMs
FirstBreakEnd == FirstWorkEnd + DEFAULT_TIMES.shortBreak * MsPerSec + CompleteDelayMs
SessionEpoch == 2 * DEFAULT_TIMES.work * MsPerSec

FreshDoc == [DEFAULT_DATA EXCEPT !.tasks = StoredTasks]
AfterWorkDoc == Played(FreshDoc, InitialTimer, FirstWorkEnd)
AfterBreakDoc ==
  Played(AfterWorkDoc,
         advanceState(PlayedState(InitialTimer, FirstWorkEnd),
                      completeState(PlayedState(InitialTimer, FirstWorkEnd)),
                      FreshDoc.settings, FirstWorkEnd),
         FirstBreakEnd)

\* the documents a run of the session pipeline can start from: a fresh one, one
\* left before a break and one left before the next work session
SessionDocs == {FreshDoc, AfterWorkDoc, AfterBreakDoc}

InitSession ==
  /\ FreshProcess
  /\ now = SessionEpoch
  /\ doc \in SessionDocs
  /\ opsLeft = SessionOps
  /\ storageUp = TRUE
  /\ QueueIdle
  /\ localStorage = NoItem

NextSession ==
  \/ Start
  \/ SetCurrentTask
  \/ CreateTaskRead
  \/ CreateTaskWrite
  \/ Advance
  \/ LongGap
  \/ CompleteDelay
  \/ Tick
  \/ CompleteSession
  \/ CompleteContinue
  \/ PersistRead
  \/ PersistWrite
  \/ Initialize
  \/ InitializeContinue

SpecSession == InitSession /\ [][NextSession]_vars

\* ------------------------------------- the long-break cadence's specification
\* breaks start by themselves, work sessions are started by the user
CadenceDocs ==
  { [DEFAULT_DATA EXCEPT !.settings.autoStartBreaks = TRUE,
                         !.settings.longBreakInterval = n] : n \in {2, 3} }

InitCadence ==
  /\ FreshProcess
  /\ now = MsPerSec
  /\ doc \in CadenceDocs
  /\ opsLeft = CadenceOps
  /\ storageUp = TRUE
  /\ QueueIdle
  /\ localStorage = NoItem

NextCadence ==
  \/ Start
  \/ Pause
  \/ Stop
  \/ Reset
  \/ Elapse
  \/ CompleteDelay
  \/ Tick
  \/ CompleteSession
  \/ CompleteContinue
  \/ PersistRead
  \/ PersistWrite
  \/ Initialize
  \/ InitializeContinue

SpecCadence == InitCadence /\ [][NextCadence]_vars

\* ------------------------------------------------ DatabaseManager (main)
\* a caller's mutation of its copy of the document: its own counter
mutation(c, data) == [data EXCEPT !.stats.dailyPomodoros = Put(@, c, 1)]

\* the document carries caller c's mutation
hasMutation(c, data) == Get(data.stats.dailyPomodoros, c) = 1

\* db:write's operation: the current document is ignored
operation(current, payload) == validateAndMigrateData(payload)

\* a processQueue that takes the newest closure
popped(queue) ==
  [next |-> queue[Len(queue)], rest |-> SubSeq(queue, 1, Len(queue) - 1)]

\* processQueue: const next = this.writeQueue.shift()
shifted(queue) == [next |-> Head(queue), rest |-> Tail(queue)]

\* processQueue: if (this.writeQueue.length > 0 && !this.writeLock)
processQueueGuard(queue, lock) == Len(queue) > 0 /\ ~lock

\* processQueue() on a queue, a lock and the closures already started: the
\* closure it starts runs up to its first await, which takes the lock
processQueue(queue, lock, started) ==
  /\ writeQueue' = IF processQueueGuard(queue, lock) THEN shifted(queue).rest ELSE queue
  /\ writeLock' = (lock \/ processQueueGuard(queue, lock))
  /\ running' = IF processQueueGuard(queue, lock)
                THEN started \cup {[caller |-> shifted(queue).next.caller,
                                    payload |-> shifted(queue).next.payload,
                                    stage |-> "initialize"]}
                ELSE started

\* a caller's storage.read(): db:read answers with db.data
CallerRead ==
  /\ \E c \in 1..MaxWriters :
       /\ callers[c].pc = "idle"
       /\ callers' = [callers EXCEPT ![c].pc = "read", ![c].data = doc]
  /\ UNCHANGED <<writeQueue, writeLock, running, disk, writeLog, issued>>
  /\ UNCHANGED <<timerVars, ghostVars, envVars, now, doc, last>>
  /\ UNCHANGED storeVars

\* a caller's storage.write(): db:write calls safeWrite, which queues the
\* closure and, with the lock free, calls processQueue
CallerWrite ==
  /\ \E c \in 1..MaxWriters :
       /\ callers[c].pc = "read"
       /\ callers' = [callers EXCEPT
                        ![c].pc = "writing",
                        ![c].data = mutation(c, callers[c].data),
                        ![c].over = {d \in 1..MaxWriters : callers[d].pc = "writing"}]
       /\ issued' = Append(issued, c)
       /\ LET queue == Append(writeQueue,
                              [caller |-> c, payload |-> mutation(c, callers[c].data)])
          IN IF ~writeLock
             THEN processQueue(queue, writeLock, running)
             ELSE writeQueue' = queue /\ UNCHANGED <<writeLock, running>>
  /\ UNCHANGED <<disk, writeLog>>
  /\ UNCHANGED <<timerVars, ghostVars, envVars, now, doc, last>>
  /\ UNCHANGED storeVars

\* a started closure after its await this.initialize(): the operation runs on
\* db.data, its result becomes db.data and db.write() begins
WriteOperate ==
  /\ \E r \in running :
       /\ r.stage = "initialize"
       /\ doc' = operation(doc, r.payload)
       /\ running' = (running \ {r}) \cup {[r EXCEPT !.stage = "writing"]}
       /\ writeLog' = Append(writeLog, [caller |-> r.caller, handed |-> doc,
                                        file |-> disk, waiting |-> Len(writeQueue)])
  /\ UNCHANGED <<writeQueue, writeLock, disk, callers, issued>>
  /\ UNCHANGED <<timerVars, ghostVars, envVars, now, last>>
  /\ UNCHANGED storeVars

\* db.write() is done: the file holds db.data, resolve(true), then finally:
\* the lock is released and processQueue starts the next closure
WriteDone ==
  /\ \E r \in running :
       /\ r.stage = "writing"
       /\ disk' = doc
       /\ callers' = [callers EXCEPT ![r.caller].pc = "done"]
       /\ processQueue(writeQueue, FALSE, running \ {r})
  /\ UNCHANGED <<writeLog, issued>>
  /\ UNCHANGED <<timerVars, ghostVars, envVars, now, doc, last>>
  /\ UNCHANGED storeVars

\* a finally that leaves the lock as the closure set it
finallyLockKept(lock) == lock

\* finally: this.writeLock = false
finallyLock(lock) == FALSE

\* a started closure throws: initialize() fails or the database is missing
\* (db.data stays as it was), or db.write() rejects (db.data is the result
\* already, the file is not written). catch: reject(error), db:write answers
\* false; finally: the lock is released and processQueue starts the next closure
WriteRejects ==
  /\ \E r \in running :
       /\ callers' = [callers EXCEPT ![r.caller].pc = "failed"]
       /\ processQueue(writeQueue, finallyLock(writeLock), running \ {r})
  /\ UNCHANGED <<disk, writeLog, issued>>
  /\ UNCHANGED <<timerVars, ghostVars, envVars, now, doc, last>>
  /\ UNCHANGED storeVars

\* the documents a run of the write queue can start from
QueueDocs == {DEFAULT_DATA, AfterWorkDoc}

InitQueue ==
  /\ FreshProcess
  /\ now = SessionEpoch
  /\ doc \in QueueDocs
  /\ opsLeft = 0
  /\ storageUp = TRUE
  /\ QueueIdle
  /\ localStorage = NoItem

NextQueue ==
  \/ CallerRead
  \/ CallerWrite
  \/ WriteOperate
  \/ WriteDone

SpecQueue == InitQueue /\ [][NextQueue]_vars

\* the write queue with writes that fail. The event loop runs the continuation
\* of every settled promise and the file operations of a closure settle, so a
\* started closure goes on until it resolves or rejects.
NextWrites ==
  \/ CallerRead
  \/ CallerWrite
  \/ WriteOperate
  \/ WriteDone
  \/ WriteRejects

SpecWrites ==
  /\ InitQueue
  /\ [][NextWrites]_vars
  /\ WF_vars(WriteOperate)
  /\ WF_vars(WriteDone \/ WriteRejects)

\* ----------------------------------------------- setTimeLeft and cleanup
\* the values setTimeLeft is called with
TimeLeftInputs == {-5, 2000}

\* setTimeLeft(timeLeft): set((draft) => ...)
setTimeLeftState(t, v) == [t EXCEPT !.timeLeft = Max(0, v)]

SetTimeLeft ==
  /\ initialized
  /\ opsLeft > 0
  /\ opsLeft' = opsLeft - 1
  /\ \E v \in TimeLeftInputs : timer' = setTimeLeftState(timer, v)
  /\ last' = [op |-> "setTimeLeft"]
  /\ UNCHANGED queueVars
  /\ UNCHANGED envVars
  /\ UNCHANGED <<debounced, persistIO, pipeline, completeTimers, initIO, syncIO,
                 syncInterval, workerOn, tickHandler, initialized, taskIO, zeroReached,
                 completeCalls, workCompleted, now, doc>>
  /\ UNCHANGED storeVars

\* cleanup(): stopSyncCheck, stopWorker and offTick; the store's state stays
Cleanup ==
  /\ initialized
  /\ opsLeft > 0
  /\ opsLeft' = opsLeft - 1
  /\ syncInterval' = FALSE
  /\ workerOn' = FALSE
  /\ tickHandler' = FALSE
  /\ tickInFlight' = (tickInFlight \/ workerOn)
  /\ cancelled' = TRUE
  /\ last' = [op |-> "cleanup"]
  /\ UNCHANGED queueVars
  /\ UNCHANGED storageUp
  /\ UNCHANGED <<timer, debounced, persistIO, pipeline, completeTimers, initIO, syncIO,
                 initialized, taskIO, zeroReached, completeCalls, workCompleted, now, doc>>
  /\ UNCHANGED storeVars

\* ------------------------------------------------------ storage failures
\* the document file becomes unreadable and unwritable
StorageFails ==
  /\ storageUp
  /\ storageUp' = FALSE
  /\ last' = [op |-> "other"]
  /\ UNCHANGED queueVars
  /\ UNCHANGED <<tickInFlight, cancelled>>
  /\ UNCHANGED <<timerVars, ghostVars, now, doc>>
  /\ UNCHANGED storeVars

\* and works again
StorageRecovers ==
  /\ ~storageUp
  /\ storageUp' = TRUE
  /\ last' = [op |-> "other"]
  /\ UNCHANGED queueVars
  /\ UNCHANGED <<tickInFlight, cancelled>>
  /\ UNCHANGED <<timerVars, ghostVars, now, doc>>
  /\ UNCHANGED storeVars

\* ------------------------------------------ the countdown's liveness (fair)
\* user commands (start) per run
LiveOps == 1

\* the timer record an earlier run persisted right after start() at MsPerSec
RunningTimer == PersistedTimer(startState(InitialTimer, MsPerSec))

\* the application is opened this long before that countdown's deadline (ms)
ReopenLead == 600500

\* a fresh document, or one an earlier run left with its countdown running
LiveDocs == InitialDocs \cup {[DEFAULT_DATA EXCEPT !.timer = RunningTimer]}

InitLive ==
  /\ FreshProcess
  /\ now = RunningTimer.endAt - ReopenLead
  /\ doc \in LiveDocs
  /\ opsLeft = LiveOps
  /\ storageUp = TRUE
  /\ QueueIdle
  /\ localStorage = NoItem

\* a long stretch of the countdown in which every tick arrives on time: the
\* last of them is handled GapMargin ms before the deadline
TickedGap ==
  /\ ClockFree
  /\ tickGuard(timer)
  /\ timer.endAt # Undefined
  /\ timer.endAt - now > GapMargin
  /\ now' = timer.endAt - GapMargin
  /\ timer' = [timer EXCEPT !.timeLeft = tickTimeLeft(timer, now')]
  /\ last' = [op |-> "tick", handled |-> TRUE, before |-> timer.timeLeft]
  /\ UNCHANGED queueVars
  /\ UNCHANGED envVars
  /\ UNCHANGED <<debounced, persistIO, pipeline, completeTimers, initIO, syncIO,
                 syncInterval, workerOn, tickHandler, initialized, taskIO, ghostVars, doc>>
  /\ UNCHANGED storeVars

\* the countdown's long stretch: with ticks while the worker runs and the
\* listener is registered, without them otherwise
LiveGap == IF workerOn /\ tickHandler THEN TickedGap ELSE LongGap

\* the steps that need no user: time passes, ticks are delivered, timeouts
\* fire and promises resolve
Scheduled ==
  \/ Advance
  \/ LiveGap
  \/ CompleteDelay
  \/ Tick
  \/ CompleteSession
  \/ CompleteContinue
  \/ PersistRead
  \/ PersistWrite
  \/ Initialize
  \/ InitializeContinue
  \/ SyncRead
  \/ SyncContinue

NextLive ==
  \/ Start
  \/ Scheduled

\* Fairness: the event loop runs every callback that is due, the tick worker
\* keeps sending while its interval is set, and time passes. The user owes
\* nothing: start() is not fair.
FairLive ==
  /\ SF_vars(Advance)
  /\ SF_vars(LiveGap)
  /\ SF_vars(CompleteDelay)
  /\ SF_vars(Tick)
  /\ SF_vars(CompleteSession)
  /\ SF_vars(CompleteContinue)
  /\ SF_vars(PersistRead)
  /\ SF_vars(PersistWrite)
  /\ SF_vars(Initialize)
  /\ SF_vars(InitializeContinue)
  /\ SF_vars(SyncRead)
  /\ SF_vars(SyncContinue)

SpecLive == InitLive /\ [][NextLive]_vars /\ FairLive

\* ------------------------------------------------ reloading the document
\* user commands (start / stop / setTimeLeft) per run after a reload
ReloadOps == 1

\* a running timer as a release without endAt persisted it
LegacyRunningTimer == [RunningTimer EXCEPT !.endAt = Undefined]

\* the documents the application can find when it is opened: a countdown left
\* running, one left running by a release that stored no deadline, and a
\* break left waiting after a completed work session
ReloadDocs ==
  {[DEFAULT_DATA EXCEPT !.timer = RunningTimer],
   [DEFAULT_DATA EXCEPT !.timer = LegacyRunningTimer],
   AfterWorkDoc}

\* the wall clock when the application is opened: within the countdown, more
\* than totalTime after its deadline, and set back to before its start
ReloadTimes ==
  {RunningTimer.endAt - ReopenLead,
   RunningTimer.endAt + RunningTimer.totalTime * MsPerSec + 1,
   MsPerSec \div 2}

InitReload ==
  /\ FreshProcess
  /\ now \in ReloadTimes
  /\ doc \in ReloadDocs
  /\ opsLeft = ReloadOps
  /\ storageUp = TRUE
  /\ QueueIdle
  /\ localStorage = NoItem

NextReload ==
  \/ Initialize
  \/ InitializeContinue
  \/ Start
  \/ Stop
  \/ SetTimeLeft
  \/ Elapse
  \/ CompleteDelay
  \/ Tick
  \/ CompleteSession
  \/ CompleteContinue
  \/ PersistRead
  \/ PersistWrite

SpecReload == InitReload /\ [][NextReload]_vars

\* ------------------------------------------------------- the user's commands
\* user commands (start / pause / stop / reset / cleanup / setCurrentTask) per run
CommandOps == 3

\* settings with a work session of one minute
ShortWorkSettings == [DEFAULT_SETTINGS EXCEPT !.workDuration = 1]

\* the document left before a work session under these settings, with the
\* stored tasks
CommandDocs ==
  {[FreshDoc EXCEPT
      !.settings = ShortWorkSettings,
      !.timer.totalTime = nextTotal(WORK, ShortWorkSettings),
      !.timer.timeLeft = nextTotal(WORK, ShortWorkSettings)]}

InitCommands ==
  /\ FreshProcess
  /\ now = SessionEpoch
  /\ doc \in CommandDocs
  /\ opsLeft = CommandOps
  /\ storageUp = TRUE
  /\ QueueIdle
  /\ localStorage = NoItem

NextCommands ==
  \/ Start
  \/ Pause
  \/ Stop
  \/ Reset
  \/ Cleanup
  \/ SetCurrentTask
  \/ Elapse
  \/ CompleteDelay
  \/ Tick
  \/ CompleteSession
  \/ CompleteContinue
  \/ PersistRead
  \/ PersistWrite
  \/ Initialize
  \/ InitializeContinue

SpecCommands == InitCommands /\ [][NextCommands]_vars

\* ------------------------------------------------- the store under failures
\* user commands (start / pause / stop / reset) per run with a failing storage
FailureOps == 2

InitFailure ==
  /\ FreshProcess
  /\ now = MsPerSec
  /\ doc \in InitialDocs
  /\ opsLeft = FailureOps
  /\ storageUp = TRUE
  /\ QueueIdle
  /\ localStorage = NoItem

NextFailure ==
  \/ StorageFails
  \/ StorageRecovers
  \/ Start
  \/ Pause
  \/ Stop
  \/ Reset
  \/ Elapse
  \/ CompleteDelay
  \/ Tick
  \/ CompleteSession
  \/ CompleteContinue
  \/ PersistRead
  \/ PersistWrite
  \/ Initialize
  \/ InitializeContinue

SpecFailure == InitFailure /\ [][NextFailure]_vars

\* ------------------------------------------- stored data under an outage
\* user commands per run over a document that holds tasks and statistics
OutageOps == 2

InitOutage ==
  /\ FreshProcess
  /\ now = SessionEpoch
  /\ doc \in {FreshDoc, AfterWorkDoc}
  /\ opsLeft = OutageOps
  /\ storageUp = TRUE
  /\ QueueIdle
  /\ localStorage = NoItem

NextOutage ==
  \/ StorageFails
  \/ StorageRecovers
  \/ Start
  \/ Pause
  \/ Elapse
  \/ CompleteDelay
  \/ Tick
  \/ CompleteSession
  \/ CompleteContinue
  \/ PersistRead
  \/ PersistWrite
  \/ Initialize
  \/ InitializeContinue

SpecOutage == InitOutage /\ [][NextOutage]_vars

\* ------------------------------------------ the phases under user settings
\* user commands per run of the phases
PhaseOps == 2
\* completions after which the clock of a run of the phases stands
MaxCompletions == 3

\* settings whose durations differ from the built-in times, with every choice
\* of the two auto-start switches and a long break every second or fourth session
PhaseSettings ==
  { [DEFAULT_SETTINGS EXCEPT !.workDuration = 1, !.shortBreakDuration = 2,
                             !.longBreakDuration = 3, !.longBreakInterval = i,
                             !.autoStartBreaks = b, !.autoStartPomodoros = p] :
      b \in BOOLEAN, p \in BOOLEAN, i \in {2, 4} }

\* the documents an earlier run left before a work session or before a break
PhaseDocs ==
  { [FreshDoc EXCEPT !.settings = st,
                     !.timer.mode = m,
                     !.timer.totalTime = nextTotal(m, st),
                     !.timer.timeLeft = nextTotal(m, st)] :
      st \in PhaseSettings, m \in {WORK, SHORT_BREAK} }

InitPhases ==
  /\ FreshProcess
  /\ now = SessionEpoch
  /\ doc \in PhaseDocs
  /\ opsLeft = PhaseOps
  /\ storageUp = TRUE
  /\ QueueIdle
  /\ localStorage = NoItem

\* the countdown runs to its deadline
PhaseElapse ==
  /\ completeCalls < MaxCompletions
  /\ Elapse

NextPhases ==
  \/ Start
  \/ Stop
  \/ Reset
  \/ SetCurrentTask
  \/ PhaseElapse
  \/ CompleteDelay
  \/ Tick
  \/ CompleteSession
  \/ CompleteContinue
  \/ PersistRead
  \/ PersistWrite
  \/ Initialize
  \/ InitializeContinue

SpecPhases == InitPhases /\ [][NextPhases]_vars

\* ------------------------------------------------- the storage adapters
\* the task of the stored document of an earlier version: no stamps, no status
LegacyTask ==
  [id |-> 1, title |-> "Test Task", priority |-> "high", estimatedPomodoros |-> 4,
   completedPomodoros |-> 0, isCompleted |-> FALSE]

\* the parts a stored document without a version is made of
NoField == [k \in {} |-> 0]
LegacyTaskParts == {NoField, [tasks |-> <<>>], [tasks |-> <<LegacyTask>>]}
LegacySettingsParts == {NoField, [settings |-> [workDuration |-> 30]],
                        [settings |-> ShortWorkSettings]}
LegacyTimerParts == {NoField, [timer |-> [mode |-> SHORT_BREAK, timeLeft |-> 120]]}

\* stored documents of an earlier version
LegacyObjects ==
  { Spread(Spread(t, st), tm) :
      t \in LegacyTaskParts, st \in LegacySettingsParts, tm \in LegacyTimerParts }

\* stored documents of a later version: a document of this version's shape, or
\* of a shape of its own
FutureVersion == 2
FutureObjects ==
  { [FreshDoc EXCEPT !.version = FutureVersion],
    [version |-> FutureVersion, settings |-> [workDuration |-> 30, focusGoal |-> 8]] }

\* stored documents of this version
CurrentObjects == {DEFAULT_DATA, AfterWorkDoc}

StoredObjects == LegacyObjects \cup FutureObjects \cup CurrentObjects

\* what the localStorage key can hold when the application opens
StoredItems == {NoItem, InvalidJson, ScalarJson} \cup { JsonItem(o) : o \in StoredObjects }

\* a stored object has no version
Legacy(obj) == ~Has(obj, "version")

\* the application opens in a browser (localStorage) or in Electron (the file)
InitStorage ==
  /\ FreshProcess
  /\ now = SessionEpoch
  /\ opsLeft = 0
  /\ storageUp = TRUE
  /\ \/ localStorage \in StoredItems /\ doc = DEFAULT_DATA
     \/ localStorage = NoItem /\ doc \in StoredObjects
  /\ QueueIdle

\* storage.read() of the LocalStorageAdapter
LocalRead ==
  /\ last' = [op |-> "read", adapter |-> "local", stored |-> localStorage,
              result |-> localRead(localStorage)]
  /\ UNCHANGED <<timerVars, ghostVars, now, doc, queueVars, envVars, storeVars>>

\* storage.read() of the ElectronDbAdapter
ElectronRead ==
  /\ last' = [op |-> "read", adapter |-> "electron", stored |-> JsonItem(doc),
              result |-> electronRead(storageUp, doc)]
  /\ UNCHANGED <<timerVars, ghostVars, now, doc, queueVars, envVars, storeVars>>

\* JSON.parse(JSON.stringify(data)) of a document
jsonRoundTrip(data) ==
  [data EXCEPT !.tasks = [i \in 1..Len(data.tasks) |->
                            [data.tasks[i] EXCEPT
                               !.createdAt = IF @ = "Date" THEN "string" ELSE @]]]

\* the caller writes back the document it read, with the timer of the store:
\* storage.write({ ...data, timer }) of the LocalStorageAdapter
LocalWrite ==
  /\ last.op = "read"
  /\ last.adapter = "local"
  /\ ~last.result.rejected
  /\ localStorage' = JsonItem(jsonRoundTrip(
                                Spread(last.result.data, [timer |-> PersistedTimer(timer)])))
  /\ last' = [op |-> "write", adapter |-> "local"]
  /\ UNCHANGED <<tasks, tasksInitialized, componentVars, defaultData>>
  /\ UNCHANGED <<timerVars, ghostVars, now, doc, queueVars, envVars>>

\* and of the ElectronDbAdapter
ElectronWrite ==
  /\ last.op = "read"
  /\ last.adapter = "electron"
  /\ doc' = writeResult(storageUp, doc,
                        Spread(last.result.data, [timer |-> PersistedTimer(timer)]))
  /\ disk' = doc'
  /\ last' = [op |-> "write", adapter |-> "electron"]
  /\ UNCHANGED <<writeQueue, writeLock, running, callers, writeLog, issued>>
  /\ UNCHANGED <<timerVars, ghostVars, now, envVars, storeVars>>

NextStorage ==
  \/ LocalRead
  \/ ElectronRead
  \/ LocalWrite
  \/ ElectronWrite
  \/ StorageFails
  \/ StorageRecovers

SpecStorage == InitStorage /\ [][NextStorage]_vars

\* ------------------------------------------- the database's write requests
\* db:write and backup:restore requests per run
DatabaseOps == 2

\* documents of this version that the validator refuses: a timer below zero, a
\* task whose stamps are Date objects
InvalidObjects ==
  { [AfterWorkDoc EXCEPT !.timer.timeLeft = -1],
    [FreshDoc EXCEPT !.tasks = <<Task(1, 3, 0, FALSE, Undefined, "Date", TRUE)>>] }

\* a document without a version whose migration the validator refuses
BrokenLegacyObject == [tasks |-> <<>>, timer |-> [timeLeft |-> -5]]

\* what a renderer hands to db:write: documents of this version, valid or not,
\* of a later version, and documents without a version that hold a task
WritePayloads ==
  CurrentObjects \cup FutureObjects \cup InvalidObjects \cup {BrokenLegacyObject}
    \cup { o \in LegacyObjects : Has(o, "timer") /\ Has(o, "tasks") /\ o.tasks # <<>> }

\* what the backup file named in backup:restore holds (NoItem: no such file)
BackupFiles ==
  {NoItem, InvalidJson, ScalarJson} \cup { JsonItem(o) : o \in WritePayloads }

\* validateAndMigrateData of a parsed file: a scalar fails the validator and
\* migrateData answers DEFAULT_DATA for it
validatedItem(item) ==
  IF item.kind = "json" THEN validateAndMigrateData(item.value) ELSE DEFAULT_DATA

\* readFileAsync and JSON.parse succeed
parses(item) == item.kind \in {"json", "scalar"}

\* safeWrite's closure: db.data = result, then db.write(), which stores the
\* file or throws
SafeWrite(request, item, written) ==
  /\ opsLeft > 0
  /\ opsLeft' = opsLeft - 1
  /\ doc' = validatedItem(item)
  /\ disk' = IF written THEN doc' ELSE disk
  /\ last' = [op |-> request, payload |-> item, ran |-> TRUE, answer |-> written,
              before |-> doc, stored |-> TRUE]
  /\ UNCHANGED <<writeQueue, writeLock, running, callers, writeLog, issued>>
  /\ UNCHANGED <<zeroReached, completeCalls, workCompleted>>
  /\ UNCHANGED <<timerVars, envVars, storeVars, now>>

\* ipcMain.handle('db:write')
DbWrite ==
  \E payload \in WritePayloads, written \in BOOLEAN :
    SafeWrite("db:write", JsonItem(payload), written)

\* ipcMain.handle('backup:restore') of a file that parses
BackupRestore ==
  \E file \in BackupFiles, written \in BOOLEAN :
    /\ parses(file)
    /\ SafeWrite("backup:restore", file, written)

\* ipcMain.handle('backup:restore') of a file that is missing or is not JSON:
\* the handler's catch answers { success: false } and nothing is written
BackupRestoreFails ==
  \E file \in BackupFiles :
    /\ ~parses(file)
    /\ opsLeft > 0
    /\ opsLeft' = opsLeft - 1
    /\ last' = [op |-> "backup:restore", payload |-> file, ran |-> FALSE,
                answer |-> FALSE, before |-> doc,
                stored |-> ("stored" \in DOMAIN last /\ last.stored)]
    /\ UNCHANGED <<zeroReached, completeCalls, workCompleted>>
    /\ UNCHANGED <<timerVars, envVars, storeVars, queueVars, now, doc>>

\* the database opens on a file of any version: JSONFilePreset does not validate
InitDatabase ==
  /\ FreshProcess
  /\ now = SessionEpoch
  /\ doc \in StoredObjects
  /\ opsLeft = DatabaseOps
  /\ storageUp = TRUE
  /\ QueueIdle
  /\ localStorage = NoItem

NextDatabase ==
  \/ DbWrite
  \/ BackupRestore
  \/ BackupRestoreFails

SpecDatabase == InitDatabase /\ [][NextDatabase]_vars

\* ------------------------------------------------------- the task store
\* task-store operations per run
TaskOps == 3

\* three valid stored tasks
ThreeTasks == Append(StoredTasks, Task(5, 1, 0, FALSE, Undefined, "number", TRUE))
TaskDocs == {[DEFAULT_DATA EXCEPT !.tasks = ThreeTasks]}

\* the ids the operations are called with: the fourth is no task's id
TargetIds == {1, 2, 4}
\* the lists reorderTasks is called with (ids of the tasks handed over)
Subsets == {<<2, 1>>, <<5, 1>>, <<2>>, <<4, 5>>, <<>>}
\* the updates updateTask is called with
Updates == {[estimatedPomodoros |-> 2]}

\* list.filter((task) => keep(task)) by the positions kept
RECURSIVE Filtered(_, _)
Filtered(list, kept) ==
  IF list = <<>> THEN <<>>
  ELSE IF Len(list) \in kept
       THEN Append(Filtered(SubSeq(list, 1, Len(list) - 1), kept), list[Len(list)])
       ELSE Filtered(SubSeq(list, 1, Len(list) - 1), kept)

\* tasks.filter((task) => task.id !== id)
without(list, id) == Filtered(list, {i \in 1..Len(list) : list[i].id # id})

\* { ...task, ...updates, updatedAt: new Date() }
updatedTask(task, updates) == [Spread(task, updates) EXCEPT !.createdAt = "Date"]

\* a task list with the task at index i replaced
replaced(list, i, task) == [list EXCEPT ![i] = task]

\* subsetIdToOrder.get(id), or Infinity: the last position of id in the subset
orderOf(subset, id) ==
  IF \E i \in 1..Len(subset) : subset[i] = id
  THEN CHOOSE i \in 1..Len(subset) :
         subset[i] = id /\ \A j \in (i + 1)..Len(subset) : subset[j] # id
  ELSE Len(subset) + 1

\* the comparator of reorderTasks on (order in the subset, original index)
before(a, b) == a.ia < b.ia \/ (a.ia = b.ia /\ a.idx < b.idx)

\* reorderTasks: original.slice().sort(...).map((t) => ({ ...t, updatedAt: new Date() }))
reordered(original, subset) ==
  LET keys == SortSeq([i \in 1..Len(original) |->
                         [ia |-> orderOf(subset, original[i].id), idx |-> i]], before)
  IN [i \in 1..Len(original) |-> [original[keys[i].idx] EXCEPT !.createdAt = "Date"]]

InitTasks ==
  /\ FreshProcess
  /\ now = SessionEpoch
  /\ doc \in TaskDocs
  /\ opsLeft = TaskOps
  /\ storageUp = TRUE
  /\ QueueIdle
  /\ localStorage = NoItem

\* loadTasks
LoadTasks ==
  /\ tasks' = readResult(storageUp, doc).tasks
  /\ tasks' # tasks
  /\ last' = [op |-> "loadTasks"]
  /\ UNCHANGED <<localStorage, tasksInitialized, componentVars, defaultData>>
  /\ UNCHANGED <<timerVars, ghostVars, now, doc, queueVars, envVars>>

\* updateTask(id, updates) on the document data and the store's list: the
\* document written, the list set and whether it throws
updateTaskResult(data, list, id, updates) ==
  IF findIndex(data.tasks, id) = 0
  THEN [raised |-> TRUE, wrote |-> FALSE, data |-> data, tasks |-> list]
  ELSE LET task == updatedTask(data.tasks[findIndex(data.tasks, id)], updates)
       IN [raised |-> FALSE, wrote |-> TRUE,
           data |-> [data EXCEPT !.tasks = replaced(@, findIndex(data.tasks, id), task)],
           tasks |-> IF findIndex(list, id) # 0
                     THEN replaced(list, findIndex(list, id), task) ELSE list]

\* deleteTask(id)
deleteTaskResult(data, list, id) ==
  [raised |-> FALSE, wrote |-> TRUE,
   data |-> [data EXCEPT !.tasks = without(@, id)], tasks |-> without(list, id)]

\* completeTask(id): getTaskById on the store's list, then updateTask
completeTaskResult(data, list, id) ==
  IF findIndex(list, id) = 0
  THEN [raised |-> TRUE, wrote |-> FALSE, data |-> data, tasks |-> list]
  ELSE updateTaskResult(data, list, id,
         [isCompleted |-> ~list[findIndex(list, id)].isCompleted,
          completedAt |-> IF list[findIndex(list, id)].isCompleted
                          THEN Undefined ELSE now])

\* addPomodoroToTask(id)
addPomodoroResult(data, list, id) ==
  IF findIndex(list, id) = 0
  THEN [raised |-> TRUE, wrote |-> FALSE, data |-> data, tasks |-> list]
  ELSE updateTaskResult(data, list, id,
         [completedPomodoros |-> list[findIndex(list, id)].completedPomodoros + 1])

\* one task-store mutation, from its storage.read() to its set(); a storage
\* round trip ends before the next operation is issued
TaskOperation(name, id, r) ==
  /\ opsLeft > 0
  /\ opsLeft' = opsLeft - 1
  /\ doc' = IF r.wrote THEN writeResult(storageUp, doc, r.data) ELSE doc
  /\ disk' = doc'
  /\ tasks' = r.tasks
  /\ last' = [op |-> name, id |-> id, raised |-> r.raised, doc |-> doc, tasks |-> tasks]
  /\ UNCHANGED <<writeQueue, writeLock, running, callers, writeLog, issued>>
  /\ UNCHANGED <<localStorage, tasksInitialized, componentVars, defaultData>>
  /\ UNCHANGED <<timerVars, zeroReached, completeCalls, workCompleted, now, envVars>>

UpdateTask ==
  \E id \in TargetIds, updates \in Updates :
    TaskOperation("updateTask", id,
                  updateTaskResult(readResult(storageUp, doc), tasks, id, updates))

DeleteTask ==
  \E id \in TargetIds :
    TaskOperation("deleteTask", id, deleteTaskResult(readResult(storageUp, doc), tasks, id))

CompleteTask ==
  \E id \in TargetIds :
    TaskOperation("completeTask", id,
                  completeTaskResult(readResult(storageUp, doc), tasks, id))

AddPomodoroToTask ==
  \E id \in TargetIds :
    TaskOperation("addPomodoroToTask", id,
                  addPomodoroResult(readResult(storageUp, doc), tasks, id))

ReorderTasks ==
  \E subset \in Subsets :
    /\ opsLeft > 0
    /\ opsLeft' = opsLeft - 1
    /\ doc' = writeResult(storageUp, doc,
                          [readResult(storageUp, doc) EXCEPT
                             !.tasks = reordered(@, subset)])
    /\ disk' = doc'
    /\ tasks' = reordered(readResult(storageUp, doc).tasks, subset)
    /\ last' = [op |-> "reorderTasks", subset |-> subset, doc |-> doc, tasks |-> tasks]
    /\ UNCHANGED <<writeQueue, writeLock, running, callers, writeLog, issued>>
    /\ UNCHANGED <<localStorage, tasksInitialized, componentVars, defaultData>>
    /\ UNCHANGED <<timerVars, zeroReached, completeCalls, workCompleted, now, envVars>>

NextTasks ==
  \/ LoadTasks
  \/ UpdateTask
  \/ DeleteTask
  \/ CompleteTask
  \/ AddPomodoroToTask
  \/ ReorderTasks

SpecTasks == InitTasks /\ [][NextTasks]_vars

\* ------------------------------------------------- the Timer component
\* mounts, unmounts and start / pause commands per run
ComponentOps == 3

\* the isRunning a render of Timer shows
rendered(t) == IF t.isRunning THEN "running" ELSE "stopped"

\* the function the effect returns: cleanup() when this component initialized
\* the store, no store call otherwise
effectCleanup ==
  /\ isInitialized' = FALSE
  /\ syncInterval' = (syncInterval /\ ~isInitialized)
  /\ workerOn' = (workerOn /\ ~isInitialized)
  /\ tickHandler' = (tickHandler /\ ~isInitialized)
  /\ tickInFlight' = (tickInFlight \/ (isInitialized /\ workerOn))
  /\ cancelled' = (cancelled \/ isInitialized)
  /\ last' = IF isInitialized THEN [op |-> "cleanup"] ELSE [op |-> "other"]

\* Timer mounts: the effect runs for the first time
Mount ==
  /\ effect = "none"
  /\ effect' = rendered(timer)
  /\ initialized' = TRUE
  /\ isInitialized' = ~initialized
  /\ tickHandler' = (tickHandler \/ ~initialized)
  /\ initIO' = IF initialized THEN initIO ELSE <<readResult(storageUp, doc)>>
  /\ last' = [op |-> "other"]
  /\ UNCHANGED <<tasks, localStorage, tasksInitialized, defaultData>>
  /\ UNCHANGED queueVars
  /\ UNCHANGED envVars
  /\ UNCHANGED <<timer, debounced, persistIO, pipeline, completeTimers, syncIO,
                 syncInterval, workerOn, taskIO, ghostVars, now, doc>>

\* Timer renders with another isRunning: handlePlayPause is a new function, so
\* React runs the function the effect returned and then the effect again, which
\* finds window.isTimerInitialized set
Rerender ==
  /\ effect # "none"
  /\ effect # rendered(timer)
  /\ effect' = rendered(timer)
  /\ effectCleanup
  /\ UNCHANGED <<tasks, localStorage, tasksInitialized, defaultData>>
  /\ UNCHANGED queueVars
  /\ UNCHANGED storageUp
  /\ UNCHANGED <<timer, debounced, persistIO, pipeline, completeTimers, initIO, syncIO,
                 initialized, taskIO, ghostVars, now, doc>>

\* Timer unmounts (the user leaves the timer page)
Unmount ==
  /\ effect # "none"
  /\ opsLeft > 0
  /\ opsLeft' = opsLeft - 1
  /\ effect' = "none"
  /\ effectCleanup
  /\ UNCHANGED <<tasks, localStorage, tasksInitialized, defaultData>>
  /\ UNCHANGED queueVars
  /\ UNCHANGED storageUp
  /\ UNCHANGED <<timer, debounced, persistIO, pipeline, completeTimers, initIO, syncIO,
                 initialized, taskIO, zeroReached, completeCalls, workCompleted, now, doc>>

InitComponent ==
  /\ FreshProcess
  /\ now = SessionEpoch
  /\ doc \in CommandDocs
  /\ opsLeft = ComponentOps
  /\ storageUp = TRUE
  /\ QueueIdle
  /\ localStorage = NoItem

NextComponent ==
  \/ Mount
  \/ Rerender
  \/ Unmount
  \/ Start
  \/ Pause
  \/ Elapse
  \/ CompleteDelay
  \/ Tick
  \/ CompleteSession
  \/ CompleteContinue
  \/ PersistRead
  \/ PersistWrite
  \/ InitializeContinue

SpecComponent == InitComponent /\ [][NextComponent]_vars

\* ------------------------------------------- the application in a browser
\* completions and created tasks per run over the LocalStorageAdapter
BrowserOps == 4

\* what the localStorage key can hold when the application opens in a browser:
\* nothing, text that is no document, a document of an unknown version, a
\* current document
BrowserItems ==
  {NoItem, InvalidJson, ScalarJson}
    \cup { JsonItem(o) : o \in FutureObjects \cup CurrentObjects }

\* LocalStorageAdapter.read() of such an item, with the object it returns: the
\* parsed document, or the DEFAULT_DATA object itself (shared)
sharedRead(item, defaults) ==
  IF item.kind = "json" /\ item.value.version = 1
  THEN [data |-> item.value, shared |-> FALSE]
  ELSE [data |-> defaults, shared |-> TRUE]

\* the DEFAULT_DATA object after the caller assigned into the stats object and
\* the tasks array of the document it read
mutatedDefaults(r, defaults, written) ==
  IF r.shared THEN [defaults EXCEPT !.stats = written.stats, !.tasks = written.tasks]
  ELSE defaults

\* completeSession of a countdown that ran out, over the LocalStorageAdapter:
\* the statistics and the task are assigned in the document read, the timer
\* goes into a copy ({ ...data, timer }) handed to storage.write
BrowserCompleteSession ==
  /\ opsLeft > 0
  /\ opsLeft' = opsLeft - 1
  /\ LET r == sharedRead(localStorage, defaultData)
         state == PlayedState(timer, now)
         written == completedData(r.data, state, completeState(state), now)
     IN /\ timer' = advanceState(state, completeState(state), r.data.settings, now)
        /\ localStorage' = JsonItem(jsonRoundTrip(written))
        /\ defaultData' = mutatedDefaults(r, defaultData, written)
        /\ last' = [op |-> "complete", shared |-> r.shared, mode |-> state.mode]
  /\ completeCalls' = completeCalls + 1
  /\ workCompleted' = IF timer.mode = WORK THEN workCompleted + 1 ELSE workCompleted
  /\ UNCHANGED <<tasks, tasksInitialized, componentVars>>
  /\ UNCHANGED <<debounced, persistIO, pipeline, completeTimers, initIO, syncIO,
                 syncInterval, workerOn, tickHandler, initialized, taskIO, zeroReached,
                 now, doc, queueVars, envVars>>

\* createTask over the LocalStorageAdapter: data.tasks.push(newTask) on the
\* document read, storage.write(data), then the store's list
BrowserCreateTask ==
  /\ opsLeft > 0
  /\ opsLeft' = opsLeft - 1
  /\ LET r == sharedRead(localStorage, defaultData)
     IN /\ localStorage' = JsonItem(jsonRoundTrip(createdData(r.data)))
        /\ defaultData' = mutatedDefaults(r, defaultData, createdData(r.data))
        /\ last' = [op |-> "createTask", shared |-> r.shared]
  /\ tasks' = Append(tasks, newTask(NewTaskId))
  /\ UNCHANGED <<tasksInitialized, componentVars>>
  /\ UNCHANGED <<timerVars, zeroReached, completeCalls, workCompleted, now, doc,
                 queueVars, envVars>>

\* the stored item is removed: localStorage.clear()
BrowserClear ==
  /\ localStorage # NoItem
  /\ localStorage' = NoItem
  /\ last' = [op |-> "clear"]
  /\ UNCHANGED <<tasks, tasksInitialized, componentVars, defaultData>>
  /\ UNCHANGED <<timerVars, ghostVars, now, doc, queueVars, envVars>>

InitBrowser ==
  /\ FreshProcess
  /\ now = SessionEpoch
  /\ doc = DEFAULT_DATA
  /\ opsLeft = BrowserOps
  /\ storageUp = TRUE
  /\ QueueIdle
  /\ localStorage \in BrowserItems

NextBrowser ==
  \/ BrowserCompleteSession
  \/ BrowserCreateTask
  \/ BrowserClear

SpecBrowser == InitBrowser /\ [][NextBrowser]_vars

\* ------------------------------------- the timer and the task store together
\* user commands, task-store operations and reloads per run
AppOps == 4

\* the task store's initialize(): once per window, loadTasks
InitializeTasks ==
  /\ ~tasksInitialized
  /\ tasksInitialized' = TRUE
  /\ tasks' = readResult(storageUp, doc).tasks
  /\ last' = [op |-> "loadTasks"]
  /\ UNCHANGED <<localStorage, componentVars, defaultData>>
  /\ UNCHANGED <<timerVars, ghostVars, now, doc, queueVars, envVars>>

InitApp ==
  /\ FreshProcess
  /\ now = SessionEpoch
  /\ doc \in CommandDocs
  /\ opsLeft = AppOps
  /\ storageUp = TRUE
  /\ QueueIdle
  /\ localStorage = NoItem

NextApp ==
  \/ InitializeTasks
  \/ AddPomodoroToTask
  \/ UpdateTask
  \/ SetCurrentTask
  \/ Start
  \/ Elapse
  \/ CompleteDelay
  \/ Tick
  \/ CompleteSession
  \/ CompleteContinue
  \/ PersistRead
  \/ PersistWrite
  \/ Initialize
  \/ InitializeContinue
  \/ Restart

SpecApp == InitApp /\ [][NextApp]_vars

C2_OverlappingWritesKeepBoth ==
  \A c \in 1..MaxWriters : \A d \in 1..MaxWriters :
    (callers[c].pc = "done" /\ callers[d].pc = "done" /\ d \in callers[c].over)
    => (hasMutation(c, disk) /\ hasMutation(d, disk))

C5_WorkCompletionCredits ==
  (/\ last.op = "complete"
   /\ last.state.mode = WORK
   /\ Truthy(last.state.currentTaskId)
   /\ findIndex(last.data.tasks, last.state.currentTaskId) # 0)
  => LET i == findIndex(last.data.tasks, last.state.currentTaskId)
         old == last.data.tasks[i]
         new == doc.tasks[i]
     IN /\ new.id = old.id
        /\ new.completedPomodoros = old.completedPomodoros + 1
        /\ new.completedPomodoros >= old.estimatedPomodoros
             => new.isCompleted /\ new.completedAt = last.at
        /\ doc.stats.totalPomodoros = last.data.stats.totalPomodoros + 1
        /\ doc.stats.totalWorkTime = last.data.stats.totalWorkTime + last.state.totalTime
        /\ Get(doc.stats.dailyPomodoros, dailyKey(last.at))
             = Get(last.data.stats.dailyPomodoros, dailyKey(last.at)) + 1
        /\ Get(doc.stats.weeklyPomodoros, weekKey(last.at))
             = Get(last.data.stats.weeklyPomodoros, weekKey(last.at)) + 1
        /\ Get(doc.stats.monthlyPomodoros, monthKey(last.at))
             = Get(last.data.stats.monthlyPomodoros, monthKey(last.at)) + 1

\* the credit that brings a task from 2 of 3 to 3 of 3, on a day that already
\* has a pomodoro
C5_Witness ==
  /\ last.op = "complete"
  /\ last.state.mode = WORK
  /\ last.state.currentTaskId = 1
  /\ findIndex(last.data.tasks, 1) # 0
  /\ last.data.tasks[findIndex(last.data.tasks, 1)].completedPomodoros = 2
  /\ doc.tasks[findIndex(last.data.tasks, 1)].isCompleted
  /\ Get(last.data.stats.dailyPomodoros, dailyKey(last.at)) > 0

\* C6: completing a SHORT_BREAK or LONG_BREAK session leaves the statistics and
\* every task's completedPomodoros and isCompleted as the document read had them.
C6_BreakCompletionCreditsNothing ==
  (last.op = "complete" /\ last.state.mode \in {SHORT_BREAK, LONG_BREAK})
  => /\ doc.stats = last.data.stats
     /\ Len(doc.tasks) = Len(last.data.tasks)
     /\ \A i \in 1..Len(doc.tasks) :
          /\ doc.tasks[i].completedPomodoros = last.data.tasks[i].completedPomodoros
          /\ doc.tasks[i].isCompleted = last.data.tasks[i].isCompleted

\* a completed break with a current task that the document holds
C6_Witness ==
  /\ last.op = "complete"
  /\ last.state.mode = SHORT_BREAK
  /\ Truthy(last.state.currentTaskId)
  /\ findIndex(last.data.tasks, last.state.currentTaskId) # 0
  /\ last.data.stats.totalPomodoros > 0

\* C7: the k-th WORK completion of the store leads to LONG_BREAK exactly when k
\* is a multiple of longBreakInterval, and to SHORT_BREAK otherwise.
C7_LongBreakCadence ==
  (last.op = "complete" /\ last.state.mode = WORK)
  => /\ timer.mode = LONG_BREAK <=> last.k % last.data.settings.longBreakInterval = 0
     /\ timer.mode = SHORT_BREAK <=> last.k % last.data.settings.longBreakInterval # 0

\* the second long break of a run: k is twice the interval
C7_Witness ==
  /\ last.op = "complete"
  /\ last.state.mode = WORK
  /\ last.k = 2 * last.data.settings.longBreakInterval
  /\ timer.mode = LONG_BREAK

\* C8: in the document, totalPomodoros and totalWorkTime never decrease, and a
\* step changes them only as the write of a WORK session completion.
C8_CountersMonotonic ==
  [][/\ doc'.stats.totalPomodoros >= doc.stats.totalPomodoros
     /\ doc'.stats.totalWorkTime >= doc.stats.totalWorkTime
     /\ (\/ doc'.stats.totalPomodoros # doc.stats.totalPomodoros
         \/ doc'.stats.totalWorkTime # doc.stats.totalWorkTime)
        => (last'.op = "complete" /\ last'.state.mode = WORK)]_vars

\* C9: at most one write is in flight; the operations run in the order of the
\* safeWrite calls; and each operation is handed the document that the previous
\* write left in db.data and in the file.
C9_WritesSerialized ==
  /\ Cardinality(running) <= 1
  /\ Len(writeLog) <= Len(issued)
  /\ \A i \in 1..Len(writeLog) :
       /\ writeLog[i].caller = issued[i]
       /\ writeLog[i].handed = writeLog[i].file

\* three writes requested back to back: the second ran with the third still
\* queued, and all three have run
C9_Witness ==
  /\ Len(writeLog) = 3
  /\ writeLog[2].waiting = 1
  /\ writeLog[2].handed # writeLog[1].handed

\* C10: when initialize() reads a persisted running state whose deadline gives
\* 0 < ceil((endAt - now) / 1000) <= totalTime, the store is running afterwards,
\* endAt is the persisted value and timeLeft is ceil((endAt - now) / 1000).
C10_InitializeResumes ==
  (/\ last.op = "initialized"
   /\ last.data.timer.isRunning
   /\ last.data.timer.endAt # Undefined
   /\ 0 < Ceil(last.data.timer.endAt - last.at, MsPerSec)
   /\ Ceil(last.data.timer.endAt - last.at, MsPerSec) <= last.data.timer.totalTime)
  => /\ timer.isRunning
     /\ timer.endAt = last.data.timer.endAt
     /\ timer.timeLeft = Ceil(last.data.timer.endAt - last.at, MsPerSec)

\* a reload some time after the running state was persisted, off the second grid
C10_Witness ==
  /\ last.op = "initialized"
  /\ last.data.timer.isRunning
  /\ last.data.timer.endAt # Undefined
  /\ (last.data.timer.endAt - last.at) % MsPerSec # 0
  /\ timer.isRunning
  /\ timer.timeLeft < last.data.timer.timeLeft

\* C11: after initialize() resumes a persisted running countdown in a fresh
\* process, ticks are delivered and the countdown completes without any
\* further user action.
C11_ResumedCountdownCompletes ==
  (last.op = "initialized" /\ timer.isRunning) ~> (last.op = "complete")

\* C12: when initialize() reads a persisted running state whose endAt lies
\* more than totalTime * 1000 ms in the past, or whose remaining time exceeds
\* totalTime, the store is stopped afterwards: not running, not paused, endAt
\* undefined and timeLeft = totalTime.
C12_StaleDeadlineStops ==
  (/\ last.op = "initialized"
   /\ last.data.timer.isRunning
   /\ last.data.timer.endAt # Undefined
   /\ \/ last.at - last.data.timer.endAt > last.data.timer.totalTime * MsPerSec
      \/ Ceil(Max(0, last.data.timer.endAt - last.at), MsPerSec)
           > last.data.timer.totalTime)
  => /\ ~timer.isRunning
     /\ ~timer.isPaused
     /\ timer.endAt = Undefined
     /\ timer.totalTime = last.data.timer.totalTime
     /\ timer.timeLeft = timer.totalTime

\* a reload more than totalTime after the persisted deadline
C12_Witness ==
  /\ last.op = "initialized"
  /\ last.data.timer.isRunning
  /\ last.data.timer.endAt # Undefined
  /\ last.at - last.data.timer.endAt > last.data.timer.totalTime * MsPerSec
  /\ ~timer.isRunning

\* C13: when initialize() reads a persisted state that is running but has no
\* endAt, the store is stopped afterwards: not running, endAt undefined and
\* timeLeft = totalTime.
C13_RunningWithoutDeadlineStops ==
  (/\ last.op = "initialized"
   /\ last.data.timer.isRunning
   /\ last.data.timer.endAt = Undefined)
  => /\ ~timer.isRunning
     /\ timer.endAt = Undefined
     /\ timer.timeLeft = timer.totalTime

\* C14: in every reachable state of the timer store, isRunning and isPaused
\* are not both true.
C14_RunningExcludesPaused == ~(timer.isRunning /\ timer.isPaused)

\* a paused state that initialize() restored from the document
C14_Witness ==
  /\ last.op = "initialized"
  /\ last.data.timer.isPaused
  /\ timer.isPaused
  /\ ~timer.isRunning

\* C15: in every reachable state of the timer store, timeLeft lies in
\* [0, totalTime].
C15_TimeLeftInRange ==
  /\ timer.timeLeft >= 0
  /\ timer.timeLeft <= timer.totalTime

\* C16: after initialize() and start(), with ticks being delivered and no
\* pause, stop, reset or cleanup, a running countdown with time left reaches
\* zero and completeSession runs: the timer never stays running at timeLeft = 0
\* for ever.
C16_CountdownCompletes ==
  (timer.isRunning /\ timer.timeLeft > 0 /\ workerOn /\ tickHandler /\ initIO = <<>>)
    ~> (last.op = "complete")

\* C17: once pause(), stop() or cleanup() has been called, a tick delivered
\* before the next start, one in flight included, changes no field of the
\* timer state.
C17_CancelledTicksChangeNothing ==
  [][(last'.op = "tick" /\ cancelled) => timer' = timer]_vars

\* a tick the worker sent before pause() stopped it, delivered afterwards
C17_Witness ==
  /\ last.op = "tick"
  /\ cancelled
  /\ ~workerOn
  /\ timer.isPaused
  /\ timer.timeLeft > 0

\* C18: after stop() timeLeft = totalTime, the timer is neither running nor
\* paused, endAt is undefined and mode, totalTime and the session counters are
\* as before; a second stop() right after the first leaves the state as the
\* first left it.
C18_StopIdempotent ==
  (last.op = "stop")
  => /\ timer.timeLeft = timer.totalTime
     /\ ~timer.isRunning
     /\ ~timer.isPaused
     /\ timer.endAt = Undefined
     /\ timer.mode = last.before.mode
     /\ timer.totalTime = last.before.totalTime
     /\ timer.currentSession = last.before.currentSession
     /\ timer.totalSessions = last.before.totalSessions
     /\ last.twice => timer = last.before

\* two stops in a row, the first on a running countdown that was under way
C18_Witness ==
  /\ last.op = "stop"
  /\ last.twice
  /\ last.first.isRunning
  /\ last.first.timeLeft < last.first.totalTime

\* C19: while the storage fails, start, pause, stop and reset still make their
\* in-memory transition, a failing persist leaves the store and the document as
\* they are, and a completeSession whose write fails has still moved the store
\* to the next mode with its totalTime and timeLeft.
C19_FailuresLeaveTransitions ==
  [][~storageUp' =>
       /\ last'.op = "start"
            => /\ timer'.isRunning
               /\ ~timer'.isPaused
               /\ timer'.endAt = now + timer.timeLeft * MsPerSec
       /\ last'.op = "pause"
            => /\ ~timer'.isRunning
               /\ timer'.isPaused
               /\ timer'.endAt = Undefined
       /\ last'.op = "stop"
            => /\ ~timer'.isRunning
               /\ ~timer'.isPaused
               /\ timer'.timeLeft = timer.totalTime
       /\ last'.op = "reset"
            => /\ ~timer'.isRunning
               /\ timer'.totalTime = getTimeForMode(timer.mode)
               /\ timer'.timeLeft = timer'.totalTime
       /\ last'.op = "persist"
            => /\ timer' = timer
               /\ doc' = doc
       /\ last'.op = "complete"
            => /\ timer'.mode # last'.state.mode
               /\ timer'.totalTime = nextTotal(timer'.mode, last'.data.settings)
               /\ timer'.timeLeft = timer'.totalTime
               /\ doc' = doc]_vars

\* a work session completed while the storage failed: the store is at the
\* break, the document still at the work session
C19_Witness ==
  /\ last.op = "complete"
  /\ ~last.stored
  /\ last.state.mode = WORK
  /\ timer.mode = SHORT_BREAK
  /\ timer.timeLeft = DEFAULT_TIMES.shortBreak
  /\ doc.timer.mode = WORK

\* C20: when the store changed between completeSession and its continuation,
\* the statistics and the task credit written are still those of the mode,
\* totalTime and current task captured when completeSession was called.
C20_CreditsUseCapturedState ==
  (last.op = "complete" /\ last.next # completeState(last.state))
  => /\ doc.stats.totalPomodoros
          = last.data.stats.totalPomodoros + (IF last.state.mode = WORK THEN 1 ELSE 0)
     /\ doc.stats.totalWorkTime
          = last.data.stats.totalWorkTime
            + (IF last.state.mode = WORK THEN last.state.totalTime ELSE 0)
     /\ Len(doc.tasks) = Len(last.data.tasks)
     /\ \A i \in 1..Len(doc.tasks) :
          doc.tasks[i].completedPomodoros
            = last.data.tasks[i].completedPomodoros
              + (IF /\ last.state.mode = WORK
                    /\ last.data.tasks[i].id = last.state.currentTaskId
                 THEN 1 ELSE 0)

\* a work session completed with a current task; reset() changed totalTime
\* while the continuation waited for its read
C20_Witness ==
  /\ last.op = "complete"
  /\ last.state.mode = WORK
  /\ findIndex(last.data.tasks, last.state.currentTaskId) # 0
  /\ last.next.totalTime # last.state.totalTime
  /\ doc.stats.totalWorkTime = last.data.stats.totalWorkTime + last.state.totalTime

\* C21: a completion ends with the next countdown running, its deadline
\* totalTime seconds ahead and the tick worker started exactly when a work
\* session ended with autoStartBreaks set or a break ended with
\* autoStartPomodoros set; otherwise it ends stopped, without a deadline.
C21_AutoStartExactly ==
  last.op = "complete" =>
    IF \/ (last.state.mode = WORK /\ last.data.settings.autoStartBreaks)
       \/ (last.state.mode # WORK /\ last.data.settings.autoStartPomodoros)
    THEN /\ timer.isRunning
         /\ ~timer.isPaused
         /\ timer.endAt = last.at + timer.totalTime * MsPerSec
         /\ workerOn
    ELSE /\ ~timer.isRunning
         /\ timer.endAt = Undefined

\* a break ended and the work session started by itself
C21_Witness ==
  /\ last.op = "complete"
  /\ last.state.mode = SHORT_BREAK
  /\ last.data.settings.autoStartPomodoros
  /\ ~last.data.settings.autoStartBreaks
  /\ timer.mode = WORK
  /\ timer.isRunning
  /\ workerOn

\* C22: after the completion of a break the mode is WORK, and after every
\* completion totalTime is the duration the settings give for the new mode, in
\* seconds, and timeLeft equals it.
C22_NextPhaseFromSettings ==
  last.op = "complete" =>
    /\ last.state.mode # WORK => timer.mode = WORK
    /\ timer.mode = WORK
         => timer.totalTime = last.data.settings.workDuration * SecPerMin
    /\ timer.mode = SHORT_BREAK
         => timer.totalTime = last.data.settings.shortBreakDuration * SecPerMin
    /\ timer.mode = LONG_BREAK
         => timer.totalTime = last.data.settings.longBreakDuration * SecPerMin
    /\ timer.timeLeft = timer.totalTime

\* a break ended under settings with a work session of one minute
C22_Witness ==
  /\ last.op = "complete"
  /\ last.state.mode = SHORT_BREAK
  /\ last.data.settings.workDuration = 1
  /\ timer.mode = WORK
  /\ timer.totalTime = SecPerMin
  /\ timer.timeLeft = SecPerMin

\* C23: a completion writes the document once and not through the debounced
\* writer: the synchronous part of completeSession writes nothing and arms no
\* debounce, the continuation ends the completion with one write that carries
\* the statistics, the task credit and the advanced timer together, and only
\* start, pause, stop and reset arm the debounced writer.
C23_CompletionWritesOnce ==
  [][/\ completeCalls' # completeCalls
          => /\ doc' = doc
             /\ debounced' = debounced
             /\ Len(pipeline') = Len(pipeline) + 1
     /\ last'.op = "complete"
          => /\ Len(pipeline') = Len(pipeline) - 1
             /\ debounced' = debounced
             /\ persistIO' = persistIO
             /\ doc'.timer = PersistedTimer(timer')
             /\ doc'.stats.totalPomodoros =
                  last'.data.stats.totalPomodoros
                    + (IF last'.state.mode = WORK THEN 1 ELSE 0)
             /\ doc'.stats.totalWorkTime =
                  last'.data.stats.totalWorkTime
                    + (IF last'.state.mode = WORK THEN last'.state.totalTime ELSE 0)
             /\ \A i \in 1..Len(last'.data.tasks) :
                  doc'.tasks[i].completedPomodoros =
                    last'.data.tasks[i].completedPomodoros
                      + (IF /\ last'.state.mode = WORK
                            /\ last'.data.tasks[i].id = last'.state.currentTaskId
                         THEN 1 ELSE 0)
     /\ (debounced' # debounced /\ debounced' # <<>>)
          => last'.op \in {"start", "pause", "stop", "reset"}
     /\ doc' # doc => last'.op \in {"complete", "persist"}]_vars

\* a work session on the first task ended with no debounced write pending:
\* the document holds the pomodoro, the task's credit and the break
C23_Witness ==
  /\ last.op = "complete"
  /\ last.state.mode = WORK
  /\ last.state.currentTaskId = 1
  /\ last.data.stats.totalPomodoros = 0
  /\ doc.stats.totalPomodoros = 1
  /\ doc.tasks[1].completedPomodoros = last.data.tasks[1].completedPomodoros + 1
  /\ doc.timer.mode # WORK
  /\ doc.timer = PersistedTimer(timer)
  /\ debounced = <<>>
  /\ persistIO = <<>>

\* C24: after stop() or reset() no task is selected, whatever task was
\* selected before.
C24_StopAndResetClearTask ==
  last.op \in {"stop", "reset"} => timer.currentTaskId = Undefined

\* C25: after reset() totalTime and timeLeft are the duration the settings
\* give for the current mode, in seconds, and the timer is neither running nor
\* paused and has no deadline.
C25_ResetUsesSettings ==
  last.op = "reset" =>
    /\ timer.mode = WORK
         => timer.totalTime = doc.settings.workDuration * SecPerMin
    /\ timer.mode = SHORT_BREAK
         => timer.totalTime = doc.settings.shortBreakDuration * SecPerMin
    /\ timer.mode = LONG_BREAK
         => timer.totalTime = doc.settings.longBreakDuration * SecPerMin
    /\ timer.timeLeft = timer.totalTime
    /\ ~timer.isRunning
    /\ ~timer.isPaused
    /\ timer.endAt = Undefined

\* C26: a read() of a stored document without a version, by either adapter,
\* resolves to a document of version 1 that keeps every stored setting, has a
\* default for every missing field and whose tasks carry createdAt and
\* updatedAt.
C26_LegacyReadMigrates ==
  (/\ last.op = "read"
   /\ storageUp
   /\ last.stored.kind = "json"
   /\ Legacy(last.stored.value))
    => /\ ~last.result.rejected
       /\ DOMAIN DEFAULT_DATA \subseteq DOMAIN last.result.data
       /\ last.result.data.version = 1
       /\ DOMAIN DEFAULT_SETTINGS \subseteq DOMAIN last.result.data.settings
       /\ IF Has(last.stored.value, "settings")
          THEN \A k \in DOMAIN last.stored.value.settings :
                 last.result.data.settings[k] = last.stored.value.settings[k]
          ELSE last.result.data.settings = DEFAULT_SETTINGS
       /\ \A i \in 1..Len(last.result.data.tasks) :
            {"createdAt", "updatedAt"} \subseteq DOMAIN last.result.data.tasks[i]

\* C27: a read() of a stored document whose version is not one this version
\* knows resolves to the default document.
C27_UnknownVersionReadsDefault ==
  (/\ last.op = "read"
   /\ last.stored.kind = "json"
   /\ Has(last.stored.value, "version")
   /\ last.stored.value.version = FutureVersion)
    => /\ ~last.result.rejected
       /\ last.result.data = DEFAULT_DATA

\* C28: LocalStorageAdapter.read() of a key that is empty or holds text that
\* is not JSON resolves to the default document.
C28_LocalReadNeverRejects ==
  (/\ last.op = "read"
   /\ last.adapter = "local")
    => /\ ~last.result.rejected
       /\ last.stored.kind \in {"null", "invalid"} => last.result.data = DEFAULT_DATA

\* the key held text that JSON.parse rejects and read() resolved to the
\* default document
C28_Witness ==
  /\ last.op = "read"
  /\ last.adapter = "local"
  /\ last.stored = InvalidJson
  /\ localStorage = InvalidJson
  /\ ~last.result.rejected
  /\ last.result.data = DEFAULT_DATA

\* C29: updateTask, deleteTask, completeTask and addPomodoroToTask called
\* with an id that no task has, in the document or in the store, raise an
\* error and leave the document and the store's task list as they were.
C29_MissingTaskRaises ==
  (/\ last.op \in {"updateTask", "deleteTask", "completeTask", "addPomodoroToTask"}
   /\ findIndex(last.doc.tasks, last.id) = 0
   /\ findIndex(last.tasks, last.id) = 0)
    => /\ last.raised
       /\ doc = last.doc
       /\ tasks = last.tasks

\* C30: after reorderTasks(subset) the document's task list is a permutation
\* of the stored tasks in which the tasks of the subset come in the subset's
\* order and the other tasks keep their relative order.
C30_ReorderPermutes ==
  last.op = "reorderTasks" =>
    /\ Len(doc.tasks) = Len(last.doc.tasks)
    /\ \A i \in 1..Len(last.doc.tasks) :
         \E j \in 1..Len(doc.tasks) : doc.tasks[j].id = last.doc.tasks[i].id
    /\ \A i, j \in 1..Len(doc.tasks) :
         LET a == doc.tasks[i].id
             b == doc.tasks[j].id
             inA == \E k \in 1..Len(last.subset) : last.subset[k] = a
             inB == \E k \in 1..Len(last.subset) : last.subset[k] = b
         IN i < j =>
              /\ (inA /\ inB) => orderOf(last.subset, a) <= orderOf(last.subset, b)
              /\ (~inA /\ ~inB)
                   => findIndex(last.doc.tasks, a) <= findIndex(last.doc.tasks, b)

\* C31: for every task of the document, completedAt is set exactly when
\* isCompleted is true, and a step that leaves the task completed leaves its
\* completedAt as it was: the value is the one assigned when isCompleted went
\* from false to true.
C31_CompletedAtSetAtTransition ==
  [][\A i \in 1..Len(doc'.tasks) :
       /\ (doc'.tasks[i].completedAt # Undefined) <=> doc'.tasks[i].isCompleted
       /\ \A j \in 1..Len(doc.tasks) :
            (/\ doc.tasks[j].id = doc'.tasks[i].id
             /\ doc.tasks[j].isCompleted
             /\ doc'.tasks[i].isCompleted)
            => doc'.tasks[i].completedAt = doc.tasks[j].completedAt]_vars

\* C32: when a session completion has finished and the task store is loaded,
\* the task store's copy of the credited task has the completedPomodoros and
\* the isCompleted of the persisted task.
C32_TaskStoreMatchesDocument ==
  (last.op = "complete" /\ tasksInitialized /\ Truthy(last.state.currentTaskId)) =>
    \A i \in 1..Len(doc.tasks), j \in 1..Len(tasks) :
      (doc.tasks[i].id = last.state.currentTaskId /\ tasks[j].id = doc.tasks[i].id)
      => /\ tasks[j].completedPomodoros = doc.tasks[i].completedPomodoros
         /\ tasks[j].isCompleted = doc.tasks[i].isCompleted

\* C33: while the Timer component stays mounted, no step calls cleanup(): the
\* tick listener stays registered and the tick worker is not stopped by a
\* cleanup when start() / pause() toggle the running state.
C33_CleanupOnlyAtUnmount ==
  [][(effect # "none" /\ effect' # "none") =>
       (last'.op # "cleanup" /\ (tickHandler => tickHandler'))]_vars

\* C34: no step takes a persisted task's completedPomodoros down or takes the
\* task with its credited pomodoros out of the document, whatever the
\* interleaving of session completions with addPomodoroToTask / updateTask.
C34_CreditedPomodorosKept ==
  [][\A i \in 1..Len(doc.tasks) :
       \E j \in 1..Len(doc'.tasks) :
         /\ doc'.tasks[j].id = doc.tasks[i].id
         /\ doc'.tasks[j].completedPomodoros >= doc.tasks[i].completedPomodoros]_vars

\* C35: when the store is initialized and no debounced write, completion,
\* completion delay or read of the timer store is pending, the persisted timer
\* record has the mode, totalTime, isRunning, isPaused and endAt of the store.
C35_PersistedTimerMatchesStore ==
  (initialized /\ NoIO /\ debounced = <<>> /\ completeTimers = <<>>) =>
    /\ doc.timer.mode = timer.mode
    /\ doc.timer.totalTime = timer.totalTime
    /\ doc.timer.isRunning = timer.isRunning
    /\ doc.timer.isPaused = timer.isPaused
    /\ doc.timer.endAt = timer.endAt

\* C36: when pause() or stop() was called after the tick that brought timeLeft
\* to 0 (and no start() since), the deferred completeSession completes no
\* session: the session counters and the mode stay and no crediting is started.
C36_CancelledCompletionDoesNothing ==
  [][(cancelled /\ completeCalls' > completeCalls) =>
       /\ timer'.currentSession = timer.currentSession
       /\ timer'.totalSessions = timer.totalSessions
       /\ timer'.mode = timer.mode
       /\ pipeline' = pipeline]_vars

\* C37: the shared DEFAULT_DATA object is never modified: whatever was read and
\* mutated, it has empty tasks, zero statistics and empty period maps.
C37_DefaultDataUntouched ==
  /\ defaultData.tasks = <<>>
  /\ defaultData.stats.totalPomodoros = 0
  /\ defaultData.stats.totalWorkTime = 0
  /\ defaultData.stats.dailyPomodoros = EmptyMap
  /\ defaultData.stats.weeklyPomodoros = EmptyMap
  /\ defaultData.stats.monthlyPomodoros = EmptyMap

\* the tasks (by id) and the statistics totals of `old` are still in `new`
keptData(old, new) ==
  /\ \A i \in 1..Len(old.tasks) :
        \E j \in 1..Len(new.tasks) : new.tasks[j].id = old.tasks[i].id
  /\ new.stats.totalPomodoros >= old.stats.totalPomodoros
  /\ new.stats.totalWorkTime >= old.stats.totalWorkTime

\* C38: a failed read loses nothing. When the read of the timer persistence or
\* of completeSession failed and answered the default document, the write that
\* follows it, once it is stored, leaves the tasks and the statistics of the
\* persisted document in the document.
C38_FailedReadKeepsData ==
  [][ /\ (persistIO # <<>> /\ Head(persistIO).failed
            /\ last'.op = "persist" /\ last'.stored
          => keptData(doc, doc'))
      /\ (pipeline # <<>> /\ Head(pipeline).failed
            /\ last'.op = "complete" /\ last'.stored
          => keptData(doc, doc')) ]_vars

\* the validator refuses the item as it is and as migrated
unusable(item) ==
  \/ item.kind # "json"
  \/ (~SchemaValidator(item.value) /\ ~SchemaValidator(migrateData(item.value)))

\* C39: once a db:write or backup:restore request has stored a document, the
\* document the database holds satisfies the schema validator; a supplied
\* document that fails validation even after migration is not stored, the
\* default document is stored in its place.
C39_StoredDocumentValid ==
  (last.op \in {"db:write", "backup:restore"} /\ last.stored) =>
    /\ SchemaValidator(doc)
    /\ (last.ran /\ unusable(last.payload) => doc = DEFAULT_DATA)

\* a restore of a document that the validator refuses even after migration,
\* over a database that held tasks and statistics
C39_Witness ==
  /\ last.op = "backup:restore"
  /\ last.ran
  /\ last.payload.kind = "json"
  /\ unusable(last.payload)
  /\ last.before = AfterWorkDoc
  /\ doc = DEFAULT_DATA

\* the place of caller c's write in the order of the safeWrite calls
issuedAt(c) == CHOOSE i \in 1..Len(issued) : issued[i] = c

\* C40: every write handed to safeWrite resolves or rejects, and the write
\* lock is released again whenever it was taken; writes that fail do not stop
\* the writes queued behind them, whose operations run in the order of the
\* safeWrite calls.
C40_WritesComplete ==
  /\ \A c \in 1..MaxWriters :
        (callers[c].pc = "writing") ~> (callers[c].pc \in {"done", "failed"})
  /\ writeLock ~> ~writeLock
  /\ [](\A i, j \in 1..Len(writeLog) :
          i < j => issuedAt(writeLog[i].caller) < issuedAt(writeLog[j].caller))

\* three writes were queued, the first of them failed, the other two were
\* written after it, and the lock is free
C40_Witness ==
  /\ Len(issued) = 3
  /\ callers[issued[1]].pc = "failed"
  /\ callers[issued[2]].pc = "done"
  /\ callers[issued[3]].pc = "done"
  /\ callers[issued[3]].over # {}
  /\ Len(writeLog) >= 2
  /\ ~writeLock
  /\ writeQueue = <<>>

====
